---- MODULE Spec2Model ----
(***************************************************************************)
(* tmux-sessionizer: the name-deduplication resolver and session catalog   *)
(* (src/session.rs), the discovery traversal (src/repos.rs) and the        *)
(* interactive picker (src/picker/mod.rs).                                 *)
(*                                                                         *)
(* A path is the sequence of its components as Path::iter() yields them:   *)
(* an absolute path starts with the root component "/".  An Option<T> is a *)
(* sequence of length 0 (None) or 1 (Some).                                *)
(***************************************************************************)
EXTENDS Integers, Sequences, FiniteSets, TLC

VARIABLES
    dd_pc,          \* deduplicate_sessions: "idle" | "ready" | "done"
    dd_in,          \* the Vec<Session> handed to deduplicate_sessions
    dd_out,         \* the Vec<Session> it returns
    gc_pc,          \* generate_session_container: "idle" | "run" | "done"
    gc_sessions,    \* HashMap<String, Vec<Session>>: key -> list of sessions
    gc_todo,        \* keys whose value list the loop has not visited yet
    gc_ret,         \* the returned HashMap<String, Session>: visible name -> session
    sd_pc,          \* search_dirs: "idle" | "loop" | "ok" | "err"
    to_search,      \* VecDeque<SearchDirectory>
    excluded_dirs,  \* config.excluded_dirs: Option<Vec<String>>
    repos,          \* find_repos: HashMap<String, Vec<Session>>
    sd_last,        \* what the last loop iteration did with the item it popped
    directories,    \* search_dirs: the roots config.search_dirs() returned
    pk_pc,          \* run: "idle" | "tick" | "draw" | "read" | "done" (main_loop
                    \* has ended) | "restored" | "returned" | "aborted"
    status,         \* "Running" | "Confirmed" | "Cancelled" | "Failed" | "Panicked"
    result,         \* the Option<String> main_loop returns
    filter,         \* Picker.filter: the sequence of its chars
    cursor_pos,     \* Picker.cursor_pos: u16
    selection,      \* Picker.selection.selected(): Option<usize>
    input_position, \* Picker.input_position
    pattern,        \* matcher.pattern: the text last given to reparse
    running,        \* the matcher has work its snapshot does not show yet
    snapshot,       \* matcher.snapshot(): matched items in ranked order
    event,          \* the event main_loop has just dispatched
    preview,        \* Picker.preview.is_some()
    frame,          \* the layout of the frame render drew last
    reparsed,       \* the handler of `event` called update_matcher_pattern
    append,         \* the append argument of that call of pattern.reparse
    mode,           \* pattern.status(): "Unchanged" | "Update" | "Rescore"
    press,          \* the Key main_loop has looked up in the keymap, if it has
    keymap_arg,     \* the keymap argument of Picker::new: Option<&Keymap>
    keymap,         \* Picker.keymap
    keyboard,       \* the chars the keys of the user's keyboard produce
    terminal,       \* "cooked" | "raw" (raw mode, alternate screen) | "restored"
    run_ret,        \* what Picker::run returned, once it has
    nav_start,      \* the selection before the first navigation call
    nav_trail,      \* the do_move_up / do_move_down calls made since
    cfg_pc,         \* Config::search_dirs: "idle" | "ready" | "done"
    cfg_in,         \* the Config it is called on
    cfg_out,        \* the Result<Vec<SearchDirectory>> it returns
    st_pc,          \* str_to_text: "idle" | "ready" | "done"
    st_in,          \* its arguments s and max
    st_out,         \* the Text it returns
    mg_pc,          \* merge_session_maps: "idle" | "s1" | "s2" | "done"
    mg_in,          \* the arguments s1 and s2 as the caller passed them
    mg_s1,          \* what s1.drain() has not yielded yet
    mg_s2,          \* what s2.drain() has not yielded yet
    mg_ret,         \* ret: HashMap<String, Vec<Session>>
    mk_pc,          \* marks set: "idle" | "ready" | "done"
    mk_in,          \* its arguments, and the directories that exist
    mk_marks,       \* marks of the config file: Option<HashMap<String, String>>
    mk_index,       \* the index handed to config.add_mark
    mk_out,         \* the Result<()> it returns
    ed_pc,          \* a handler of the line editor called on a filter of its own:
                    \* "idle" | "ready" | "done"
    ed_in,          \* the filter and the cursor_pos before the call
    ed_out          \* what the call has made of them

dedupVars == <<dd_pc, dd_in, dd_out>>
catalogVars == <<gc_pc, gc_sessions, gc_todo, gc_ret>>
discoveryVars == <<sd_pc, to_search, excluded_dirs, repos, sd_last, directories>>
pickerVars == <<pk_pc, status, result, filter, cursor_pos, selection, input_position,
                pattern, running, snapshot, event, preview, frame, reparsed, terminal,
                run_ret, append, mode, press, keymap_arg, keymap, keyboard>>
\* what Picker::new sets and main_loop only reads
setupVars == <<keymap_arg, keymap, keyboard>>
runVars == <<terminal, run_ret>>
navVars == <<nav_start, nav_trail>>
configVars == <<cfg_pc, cfg_in, cfg_out>>
ansiVars == <<st_pc, st_in, st_out>>
mergeVars == <<mg_pc, mg_in, mg_s1, mg_s2, mg_ret>>
\* the calls of the command line modelled on their own
marksVars == <<mk_pc, mk_in, mk_marks, mk_index, mk_out>>
editorVars == <<ed_pc, ed_in, ed_out>>
callVars == <<mergeVars, marksVars, editorVars>>
vars == <<dedupVars, catalogVars, discoveryVars, pickerVars, navVars, configVars, ansiVars,
          callVars>>

(***************************************************************************)
(* Bounds of the model.                                                    *)
(***************************************************************************)
MaxGroup == 3       \* sessions in one collision group
MaxDirs == 2        \* directory components between the root and the basename
MaxCatGroup == 2    \* sessions under one key of the catalog input
MaxRoots == 2       \* configured search directories
MaxDepth == 1       \* configured depth of a search directory
MaxFilterLen == 2   \* chars typed into the filter
MaxNav == 3         \* navigation calls in one direction
MaxCfgDirs == 2     \* entries of search_dirs, and of search_paths, in the config
MaxAnsiLen == 5     \* chars of the text handed to str_to_text
MaxMergeGroup == 2  \* sessions under one key of a map handed to merge_session_maps
MaxMarks == 2       \* marks in the config file when marks set is called
MaxWordLen == 3     \* chars of the filter delete_word is called on

DirNames == {"a", "b"}

Max(a, b) == IF a >= b THEN a ELSE b
Min(a, b) == IF a <= b THEN a ELSE b

RECURSIVE SeqsUpTo(_, _)
SeqsUpTo(S, n) ==
    IF n = 0 THEN {<<>>}
    ELSE LET shorter == SeqsUpTo(S, n - 1)
         IN  shorter \cup {Append(s, x) : s \in shorter, x \in S}

Range(s) == {s[i] : i \in 1..Len(s)}

\* some enumeration of a finite set
RECURSIVE SetToSeq(_)
SetToSeq(S) ==
    IF S = {} THEN <<>>
    ELSE LET x == CHOOSE y \in S : TRUE IN <<x>> \o SetToSeq(S \ {x})

Reverse(s) == [i \in 1..Len(s) |-> s[Len(s) + 1 - i]]

\* all orderings of the elements of sequence s
Perms(s) ==
    {[i \in 1..Len(s) |-> s[f[i]]] :
        f \in {g \in [1..Len(s) -> 1..Len(s)] : \A i, j \in 1..Len(s) : g[i] = g[j] => i = j}}

(***************************************************************************)
(* Session (src/session.rs)                                                *)
(***************************************************************************)
\* Session::new(name, session_type): the session type is reduced to its path
Session(name, path) == [name |-> name, path |-> path]

\* path.iter().rev().nth(n)
Nth(path, n) == IF n < Len(path) THEN <<path[Len(path) - n]>> ELSE <<>>

\* the inner `while equal` loop of deduplicate_sessions: the probe depth the
\* popped session reaches against the sessions still in the vector
\* mutation: only the first remaining session is compared
RECURSIVE ProbeDepthFirst(_, _, _)
ProbeDepthFirst(current_path, duplicate_sessions, current_depth) ==
    LET current_str == Nth(current_path, current_depth)
    IN  IF /\ current_str # <<>>
           /\ duplicate_sessions # <<>>
           /\ Nth(duplicate_sessions[1].path, current_depth) = current_str
        THEN ProbeDepthFirst(current_path, duplicate_sessions, current_depth + 1)
        ELSE current_depth

RECURSIVE ProbeDepth(_, _, _)
ProbeDepth(current_path, duplicate_sessions, current_depth) ==
    LET current_str == Nth(current_path, current_depth)
    IN  IF /\ current_str # <<>>
           /\ \E i \in 1..Len(duplicate_sessions) :
                 Nth(duplicate_sessions[i].path, current_depth) = current_str
        THEN ProbeDepth(current_path, duplicate_sessions, current_depth + 1)
        ELSE current_depth

\* the outer `while let Some(current_session) = duplicate_sessions.pop()` loop
RECURSIVE DedupProbe(_, _, _)
DedupProbe(duplicate_sessions, depth, deduplicated) ==
    IF duplicate_sessions = <<>>
    THEN [depth |-> depth, deduplicated |-> deduplicated]
    ELSE LET current_session == duplicate_sessions[Len(duplicate_sessions)]
             rest == SubSeq(duplicate_sessions, 1, Len(duplicate_sessions) - 1)
             current_depth == ProbeDepth(current_session.path, rest, 1)
         IN  DedupProbe(rest, Max(depth, current_depth),
                        Append(deduplicated, current_session))

\* mutation: the directory is appended instead of prepended
RECURSIVE SessionNameLoopAppend(_, _, _, _)
SessionNameLoopAppend(path, count, taken, str) ==
    IF count = 0 THEN str
    ELSE LET dir == Nth(path, taken)
         IN  IF dir # <<>>
             THEN SessionNameLoopAppend(path, count - 1, taken + 1,
                                  IF str = "" THEN dir[1] ELSE str \o "/" \o dir[1])
             ELSE str

\* the `while count > 0` loop that rebuilds session.name from the path
RECURSIVE SessionNameLoop(_, _, _, _)
SessionNameLoop(path, count, taken, str) ==
    IF count = 0 THEN str
    ELSE LET dir == Nth(path, taken)
         IN  IF dir # <<>>
             THEN SessionNameLoop(path, count - 1, taken + 1,
                                  IF str = "" THEN dir[1] ELSE dir[1] \o "/" \o str)
             ELSE str

\* mutation: count = depth
SessionNameShort(path, depth) == SessionNameLoop(path, depth, 0, "")
\* session.name = { let mut count = depth + 1; ... }
SessionName(path, depth) == SessionNameLoop(path, depth + 1, 0, "")

deduplicate_sessions(duplicate_sessions) ==
    LET probed == DedupProbe(duplicate_sessions, 1, <<>>)
    IN  [i \in 1..Len(probed.deduplicated) |->
            [probed.deduplicated[i] EXCEPT
                !.name = SessionName(probed.deduplicated[i].path, probed.depth)]]

(***************************************************************************)
(* Inputs of the resolver                                                  *)
(***************************************************************************)
\* canonical absolute paths  / d1 .. dk base
PathsOf(base, maxDirs) == {<<"/">> \o ds \o <<base>> : ds \in SeqsUpTo(DirNames, maxDirs)}

C3Group == << Session("proj", <<"/", "a", "b", "proj">>),
              Session("proj", <<"/", "a", "c", "proj">>),
              Session("proj", <<"/", "x", "y", "z", "proj">>) >>

\* the vector of tests::verify_session_name_deduplication
TestGroup == << Session("test", <<"/", "search", "path", "to", "proj1", "test">>),
                Session("test", <<"/", "search", "path", "to", "proj2", "test">>),
                Session("test", <<"/", "other", "path", "to", "projects", "proj2", "test">>) >>

DedupInputs ==
    {[i \in 1..Len(ps) |-> Session("p", ps[i])] :
        ps \in SeqsUpTo(PathsOf("p", MaxDirs), MaxGroup) \ {<<>>}}
    \cup Perms(C3Group) \cup Perms(TestGroup)

DedupIdle == dd_pc = "idle" /\ dd_in = <<>> /\ dd_out = <<>>

\* a call deduplicate_sessions(&mut list)
Deduplicate ==
    /\ dd_pc = "ready"
    /\ dd_out' = deduplicate_sessions(dd_in)
    /\ dd_pc' = "done"
    /\ UNCHANGED <<dd_in, catalogVars, discoveryVars, pickerVars, navVars,
                   configVars, ansiVars, callVars>>

(***************************************************************************)
(* Catalog (generate_session_container)                                    *)
(***************************************************************************)
\* insert_session with display_full_path and search_submodules off, followed
\* by HashMap::insert: an existing entry under the same name is replaced
insert_session(ret, session) ==
    [k \in DOMAIN ret \cup {session.name} |->
        IF k = session.name THEN session ELSE ret[k]]

RECURSIVE InsertAll(_, _, _)
InsertAll(ret, list, i) ==
    IF i > Len(list) THEN ret
    ELSE InsertAll(insert_session(ret, list[i]), list, i + 1)

\* the body of `for list in sessions.values_mut()`
GenerateList(ret, list) ==
    IF Len(list) = 1
    THEN insert_session(ret, list[1])
    ELSE InsertAll(ret, deduplicate_sessions(list), 1)

CatalogKeys == {"p", "q"}

\* the multimaps find_repos and append_bookmarks build: every session is
\* filed under its own name, the basename of its path; the same directory can
\* occur twice in a list (a repository that is also bookmarked)
CatalogGroups(k) ==
    {[i \in 1..Len(ps) |-> Session(k, ps[i])] :
        ps \in SeqsUpTo(PathsOf(k, 1), MaxCatGroup) \ {<<>>}}

CatalogInputs ==
    UNION {{f \in [K -> UNION {CatalogGroups(k) : k \in K}] :
               \A k \in K : f[k] \in CatalogGroups(k)} :
           K \in SUBSET CatalogKeys}

CatalogIdle ==
    /\ gc_pc = "idle"
    /\ gc_sessions = <<>>
    /\ gc_todo = {}
    /\ gc_ret = <<>>

\* one iteration of the loop over sessions.values_mut(); a HashMap iterates
\* in an arbitrary order
GenerateStep ==
    /\ gc_pc = "run"
    /\ \E k \in gc_todo :
          /\ gc_ret' = GenerateList(gc_ret, gc_sessions[k])
          /\ gc_todo' = gc_todo \ {k}
    /\ UNCHANGED <<gc_pc, gc_sessions, dedupVars, discoveryVars, pickerVars, navVars,
                   configVars, ansiVars, callVars>>

\* Ok(ret)
GenerateReturn ==
    /\ gc_pc = "run"
    /\ gc_todo = {}
    /\ gc_pc' = "done"
    /\ UNCHANGED <<gc_sessions, gc_todo, gc_ret, dedupVars, discoveryVars, pickerVars, navVars,
                   configVars, ansiVars, callVars>>

(***************************************************************************)
(* merge_session_maps (src/session.rs)                                     *)
(*                                                                         *)
(* A HashMap<String, Vec<Session>> is a function from its keys to the      *)
(* lists filed under them.                                                 *)
(***************************************************************************)
\* mutation: the list drained from the second map replaces the entry
entry_append_replacing(ret, key, new_sessions) ==
    [k \in DOMAIN ret \cup {key} |-> IF k = key THEN new_sessions ELSE ret[k]]
\* ret.entry(key).or_insert_with(Vec::new).append(&mut new_sessions)
entry_append(ret, key, new_sessions) ==
    [k \in DOMAIN ret \cup {key} |->
        IF k # key THEN ret[k]
        ELSE IF key \in DOMAIN ret THEN ret[key] \o new_sessions
        ELSE new_sessions]

\* what HashMap::drain still has to yield once it has yielded key
Drained(map, key) == [k \in DOMAIN map \ {key} |-> map[k]]

MergeKeys == {"key1", "key2"}

MergeSessions ==
    {Session("Session A", <<"/", "path", "to", "a">>),
     Session("Session B", <<"/", "path", "to", "b">>)}

\* the maps over MergeKeys with up to MaxMergeGroup sessions under a key
MergeMaps ==
    UNION {[K -> SeqsUpTo(MergeSessions, MaxMergeGroup)] : K \in SUBSET MergeKeys}

MergeIdle ==
    /\ mg_pc = "idle"
    /\ mg_in = <<>>
    /\ mg_s1 = <<>>
    /\ mg_s2 = <<>>
    /\ mg_ret = <<>>

\* one iteration of `for (key, mut new_sessions) in s1.drain()`; a HashMap
\* drains in an arbitrary order
MergeDrainFirst ==
    /\ mg_pc = "s1"
    /\ \E key \in DOMAIN mg_s1 :
          /\ mg_ret' = entry_append(mg_ret, key, mg_s1[key])
          /\ mg_s1' = Drained(mg_s1, key)
    /\ UNCHANGED <<mg_pc, mg_in, mg_s2, dedupVars, catalogVars, discoveryVars, pickerVars,
                   navVars, configVars, ansiVars, marksVars, editorVars>>

\* the first loop has drained s1
MergeFirstDone ==
    /\ mg_pc = "s1"
    /\ DOMAIN mg_s1 = {}
    /\ mg_pc' = "s2"
    /\ UNCHANGED <<mg_in, mg_s1, mg_s2, mg_ret, dedupVars, catalogVars, discoveryVars,
                   pickerVars, navVars, configVars, ansiVars, marksVars, editorVars>>

\* one iteration of `for (key, mut new_sessions) in s2.drain()`
MergeDrainSecond ==
    /\ mg_pc = "s2"
    /\ \E key \in DOMAIN mg_s2 :
          /\ mg_ret' = entry_append(mg_ret, key, mg_s2[key])
          /\ mg_s2' = Drained(mg_s2, key)
    /\ UNCHANGED <<mg_pc, mg_in, mg_s1, dedupVars, catalogVars, discoveryVars, pickerVars,
                   navVars, configVars, ansiVars, marksVars, editorVars>>

\* the second loop has drained s2: ret
MergeReturn ==
    /\ mg_pc = "s2"
    /\ DOMAIN mg_s2 = {}
    /\ mg_pc' = "done"
    /\ UNCHANGED <<mg_in, mg_s1, mg_s2, mg_ret, dedupVars, catalogVars, discoveryVars,
                   pickerVars, navVars, configVars, ansiVars, marksVars, editorVars>>

(***************************************************************************)
(* Discovery (search_dirs and the find_repos callback, src/repos.rs)       *)
(***************************************************************************)
EntryNames == {"ab", "b"}
Literals == {"a", "/b"}

SearchDirectory(path, depth) == [path |-> path, depth |-> depth]

\* PathBuf -> String: the root is not followed by a second separator
RECURSIVE PathString(_)
PathString(path) ==
    IF path = <<>> THEN ""
    ELSE IF Len(path) = 1 THEN path[1]
    ELSE IF path[1] = "/" THEN "/" \o PathString(Tail(path))
    ELSE path[1] \o "/" \o PathString(Tail(path))

\* does the literal occur in str at offset `at` or later
RECURSIVE FindFrom(_, _, _)
FindFrom(str, lit, at) ==
    IF at + Len(lit) > Len(str) THEN FALSE
    ELSE IF SubSeq(str, at + 1, at + Len(lit)) = lit THEN TRUE
    ELSE FindFrom(str, lit, at + 1)

\* mutation: the literal must be the whole path
IsMatchWhole(patterns, str) == \E lit \in patterns : str = lit
\* AhoCorasick::is_match over the configured literals
IsMatch(patterns, str) == \E lit \in patterns : FindFrom(str, lit, 0)

\* `if let Some(ref excluder) = excluder { if excluder.is_match(..) { continue } }`
Excluded(file) ==
    /\ excluded_dirs # <<>>
    /\ IsMatch(excluded_dirs[1], PathString(file.path))

\* the closure of find_repos: push the session under its basename
PushRepo(map, path) ==
    LET session_name == path[Len(path)]
        session == Session(session_name, path)
    IN  IF session_name \in DOMAIN map
        THEN [map EXCEPT ![session_name] = Append(@, session)]
        ELSE [k \in DOMAIN map \cup {session_name} |->
                 IF k = session_name THEN <<session>> ELSE map[k]]

\* one iteration of the loop: the item popped, whether it was probed as a
\* repository, whether it opened as one, whether the callback emitted it,
\* what read_dir returned ("none" when it was not called) and the entries
\* that were enqueued
Last(file, probed, repo, emitted, read, children) ==
    [path |-> file.path, depth |-> file.depth, probed |-> probed, repo |-> repo,
     emitted |-> emitted, read |-> read, children |-> children]

DiscoveryIdle ==
    /\ sd_pc = "idle"
    /\ to_search = <<>>
    /\ excluded_dirs = <<>>
    /\ repos = <<>>
    /\ sd_last = <<>>
    /\ directories = <<>>

\* the popped item matches an exclusion literal: `continue`
SearchExcluded ==
    /\ sd_pc = "loop" /\ to_search # <<>>
    /\ LET file == Head(to_search)
       IN  /\ Excluded(file)
           /\ to_search' = Tail(to_search)
           /\ sd_last' = <<Last(file, FALSE, FALSE, FALSE, "none", {})>>
    /\ UNCHANGED <<sd_pc, excluded_dirs, directories, repos, dedupVars, catalogVars, pickerVars, navVars,
                   configVars, ansiVars, callVars>>

\* LazyRepoProvider::new succeeds and the callback runs; a worktree checkout
\* is not emitted
SearchRepo ==
    /\ sd_pc = "loop" /\ to_search # <<>>
    /\ LET file == Head(to_search)
       IN  /\ ~Excluded(file)
           /\ \E is_worktree \in BOOLEAN :
                 /\ repos' = IF is_worktree THEN repos ELSE PushRepo(repos, file.path)
                 /\ sd_last' = <<Last(file, TRUE, TRUE, ~is_worktree, "none", {})>>
           /\ to_search' = Tail(to_search)
    /\ UNCHANGED <<sd_pc, excluded_dirs, directories, dedupVars, catalogVars, pickerVars, navVars,
                   configVars, ansiVars, callVars>>

\* not a repository, and not a directory or no depth left
SearchLeaf ==
    /\ sd_pc = "loop" /\ to_search # <<>>
    /\ LET file == Head(to_search)
       IN  /\ ~Excluded(file)
           /\ \E is_dir \in BOOLEAN :
                 /\ ~(is_dir /\ file.depth > 0)
                 /\ sd_last' = <<Last(file, TRUE, FALSE, FALSE, "none", {})>>
           /\ to_search' = Tail(to_search)
    /\ UNCHANGED <<sd_pc, excluded_dirs, directories, repos, dedupVars, catalogVars, pickerVars, navVars,
                   configVars, ansiVars, callVars>>

\* mutation: the entries are enqueued with the depth of their parent
SearchDescendSameDepth ==
    /\ sd_pc = "loop" /\ to_search # <<>>
    /\ LET file == Head(to_search)
       IN  /\ ~Excluded(file)
           /\ file.depth > 0
           /\ \E entries \in SUBSET EntryNames :
              \E order \in Perms(SetToSeq(entries)) :
                 /\ to_search' = Tail(to_search) \o
                       [i \in 1..Len(order) |->
                           SearchDirectory(Append(file.path, order[i]), file.depth)]
                 /\ sd_last' = <<Last(file, TRUE, FALSE, FALSE, "ok", entries)>>
    /\ UNCHANGED <<sd_pc, excluded_dirs, directories, repos, dedupVars, catalogVars, pickerVars, navVars,
                   configVars, ansiVars, callVars>>
\* not a repository, a directory with depth left, read_dir succeeds: every
\* entry is appended with depth - 1, in the order read_dir yields them
SearchDescend ==
    /\ sd_pc = "loop" /\ to_search # <<>>
    /\ LET file == Head(to_search)
       IN  /\ ~Excluded(file)
           /\ file.depth > 0
           /\ \E entries \in SUBSET EntryNames :
              \E order \in Perms(SetToSeq(entries)) :
                 /\ to_search' = Tail(to_search) \o
                       [i \in 1..Len(order) |->
                           SearchDirectory(Append(file.path, order[i]), file.depth - 1)]
                 /\ sd_last' = <<Last(file, TRUE, FALSE, FALSE, "ok", entries)>>
    /\ UNCHANGED <<sd_pc, excluded_dirs, directories, repos, dedupVars, catalogVars, pickerVars, navVars,
                   configVars, ansiVars, callVars>>

\* mutation: a denied directory ends the traversal like any other error
SearchDeniedAbort ==
    /\ sd_pc = "loop" /\ to_search # <<>>
    /\ LET file == Head(to_search)
       IN  /\ ~Excluded(file)
           /\ file.depth > 0
           /\ to_search' = Tail(to_search)
           /\ sd_last' = <<Last(file, TRUE, FALSE, FALSE, "denied", {})>>
    /\ sd_pc' = "err"
    /\ UNCHANGED <<excluded_dirs, directories, repos, dedupVars, catalogVars, pickerVars, navVars,
                   configVars, ansiVars, callVars>>
\* read_dir fails with PermissionDenied: warn and go on
SearchDenied ==
    /\ sd_pc = "loop" /\ to_search # <<>>
    /\ LET file == Head(to_search)
       IN  /\ ~Excluded(file)
           /\ file.depth > 0
           /\ to_search' = Tail(to_search)
           /\ sd_last' = <<Last(file, TRUE, FALSE, FALSE, "denied", {})>>
    /\ UNCHANGED <<sd_pc, excluded_dirs, directories, repos, dedupVars, catalogVars, pickerVars, navVars,
                   configVars, ansiVars, callVars>>

\* read_dir fails with another error: return Err(IoError)
SearchIoError ==
    /\ sd_pc = "loop" /\ to_search # <<>>
    /\ LET file == Head(to_search)
       IN  /\ ~Excluded(file)
           /\ file.depth > 0
           /\ to_search' = Tail(to_search)
           /\ sd_last' = <<Last(file, TRUE, FALSE, FALSE, "error", {})>>
    /\ sd_pc' = "err"
    /\ UNCHANGED <<excluded_dirs, directories, repos, dedupVars, catalogVars, pickerVars, navVars,
                   configVars, ansiVars, callVars>>

\* the queue is empty: Ok(())
SearchReturn ==
    /\ sd_pc = "loop" /\ to_search = <<>>
    /\ sd_pc' = "ok"
    /\ UNCHANGED <<to_search, excluded_dirs, directories, repos, sd_last, dedupVars, catalogVars, pickerVars, navVars,
                   configVars, ansiVars, callVars>>

(***************************************************************************)
(* Picker (src/picker/mod.rs)                                              *)
(*                                                                         *)
(* The filter is the sequence of its chars; String offsets are byte        *)
(* offsets, and a String operation at an offset that is not a char         *)
(* boundary panics.                                                        *)
(***************************************************************************)
WideChar == "U+00E9"            \* a char whose UTF-8 encoding has two bytes
Chars == {"a", WideChar}        \* the chars a key press can carry

U16_MAX == 65535

None == <<>>
Some(x) == <<x>>

\* char::len_utf8
ByteLen(c) == IF c = WideChar THEN 2 ELSE 1

\* String::len: the length in bytes
RECURSIVE StrLen(_)
StrLen(str) == IF str = <<>> THEN 0 ELSE ByteLen(Head(str)) + StrLen(Tail(str))

\* the byte offset at which the k-th char (from 1) starts; k = Len+1 is the end
CharStart(str, k) == StrLen(SubSeq(str, 1, k - 1))

\* str::is_char_boundary
IsCharBoundary(str, idx) == \E k \in 1..(Len(str) + 1) : CharStart(str, k) = idx

\* the number of chars that start before byte offset idx (a char boundary)
CharsBefore(str, idx) == CHOOSE k \in 0..Len(str) : CharStart(str, k + 1) = idx

\* String::insert(idx, c), defined where it does not panic
StrInsert(str, idx, c) ==
    LET k == CharsBefore(str, idx)
    IN  SubSeq(str, 1, k) \o <<c>> \o SubSeq(str, k + 1, Len(str))

\* String::remove(idx) panics unless idx is the start of a char
CanRemove(str, idx) == idx < StrLen(str) /\ IsCharBoundary(str, idx)
StrRemove(str, idx) ==
    LET k == CharsBefore(str, idx)
    IN  SubSeq(str, 1, k) \o SubSeq(str, k + 2, Len(str))

\* String::drain(from..to) panics unless both ends are char boundaries
CanDrain(str, from, to) ==
    from <= to /\ IsCharBoundary(str, from) /\ IsCharBoundary(str, to)
StrDrain(str, from, to) ==
    SubSeq(str, 1, CharsBefore(str, from)) \o
    SubSeq(str, CharsBefore(str, to) + 1, Len(str))

\* str::starts_with
StartsWith(str, prefix) ==
    Len(prefix) <= Len(str) /\ SubSeq(str, 1, Len(prefix)) = prefix

(***************************************************************************)
(* The matcher (nucleo), as the picker uses it: the filter is parsed into  *)
(* one atom (the model has no space to separate atoms); a leading "!"      *)
(* makes it a negated substring match, any other text is matched as a      *)
(* subsequence of the label. Matched items keep the order of injection.    *)
(***************************************************************************)
Items == << <<"a">>, <<"a", "a">>, <<WideChar, "a">>, <<WideChar>>, <<"A">> >>

UpperChars == {"A"}

\* char::to_lowercase on the chars of the model
ToLower(c) == IF c = "A" THEN "a" ELSE c

Lower(str) == [i \in 1..Len(str) |-> ToLower(str[i])]

RECURSIVE IsSubseq(_, _)
IsSubseq(needle, hay) ==
    IF needle = <<>> THEN TRUE
    ELSE IF hay = <<>> THEN FALSE
    ELSE IF Head(needle) = Head(hay) THEN IsSubseq(Tail(needle), Tail(hay))
    ELSE IsSubseq(needle, Tail(hay))

IsSubstr(needle, hay) ==
    \E i \in 0..(Len(hay) - Len(needle)) : SubSeq(hay, i + 1, i + Len(needle)) = needle

\* Atom::parse: a leading "!" negates the atom
Atom(pat) ==
    IF pat # <<>> /\ Head(pat) = "!"
    THEN [negative |-> TRUE, needle |-> Tail(pat)]
    ELSE [negative |-> FALSE, needle |-> pat]

\* mutation: CaseMatching::Respect, case is never ignored
IgnoreCaseNever(needle) == FALSE
\* CaseMatching::Smart: case is ignored unless the needle has an uppercase char
IgnoreCase(needle) == \A i \in 1..Len(needle) : needle[i] \notin UpperChars

\* whether the pattern matches the label; an atom whose needle is empty is
\* dropped, and the empty pattern matches every item
Matched(pat, label) ==
    LET atom == Atom(pat)
        hay == IF IgnoreCase(atom.needle) THEN Lower(label) ELSE label
    IN  IF atom.needle = <<>> THEN TRUE
        ELSE IF atom.negative THEN ~IsSubstr(atom.needle, hay)
        ELSE IsSubseq(atom.needle, hay)

RECURSIVE MatchFrom(_, _)
MatchFrom(pat, i) ==
    IF i > Len(Items) THEN <<>>
    ELSE (IF Matched(pat, Items[i]) THEN <<i>> ELSE <<>>) \o MatchFrom(pat, i + 1)

\* the matched items of a finished rescoring, as indices into Items
Matches(pat) == MatchFrom(pat, 1)

\* Status::Update: only the items matched so far are scored again
Rematch(snap, pat) == SelectSeq(snap, LAMBDA i : Matched(pat, Items[i]))

\* what a run of the matcher that finishes leaves in the snapshot
Rescored(pattern_status, snap, pat) ==
    IF pattern_status = "Update" THEN Rematch(snap, pat) ELSE Matches(pat)

\* Pattern::reparse: the status the next run is started with. A run that
\* the new pattern cancels is started over in full.
reparse_status(old_pat, unfinished, is_append) ==
    LET last == Atom(old_pat)
    IN  IF is_append /\ ~unfinished /\ ~(last.needle # <<>> /\ last.negative)
        THEN "Update"
        ELSE "Rescore"

\* mutation: the hint is passed whenever the filter has grown
update_matcher_pattern_longer(new_filter, prev_filter) == Len(new_filter) > Len(prev_filter)
\* Picker::update_matcher_pattern: the append argument it passes to reparse
update_matcher_pattern(new_filter, prev_filter) == StartsWith(new_filter, prev_filter)

\* snapshot.matched_item_count()
matched_item_count == Len(snapshot)

\* snapshot.get_matched_item(index).map(|item| item.data)
get_matched_item(snap, index) ==
    IF index < Len(snap) THEN Some(Items[snap[index + 1]]) ELSE None

\* mutation: the first match stands in when nothing is selected
get_selected_or_first(sel, snap) ==
    IF sel # None THEN get_matched_item(snap, sel[1]) ELSE Some(Items[1])
\* Picker::get_selected
get_selected(sel, snap) ==
    IF sel # None THEN get_matched_item(snap, sel[1]) ELSE None

\* Picker::update_selection
update_selection(sel, count) ==
    IF sel # None
    THEN IF count = 0 THEN None
         ELSE IF sel[1] > count THEN Some(count - 1)
         ELSE sel
    ELSE IF count > 0 THEN Some(0) ELSE None

\* the List widget drawn by render with &mut self.selection: an empty list
\* deselects and a selection past the end moves to the last item
render_selection(sel, count) ==
    IF count = 0 THEN None
    ELSE IF sel # None /\ sel[1] >= count THEN Some(count - 1)
    ELSE sel

\* mutation: the wrap at the last item is missing
do_move_up_nowrap(sel, item_count) ==
    IF item_count = 0 THEN sel
    ELSE IF sel # None THEN Some(sel[1] + 1) ELSE Some(0)
\* Picker::do_move_up
do_move_up(sel, item_count) ==
    IF item_count = 0 THEN sel
    ELSE LET max == item_count - 1
         IN  IF sel # None /\ sel[1] >= max THEN Some(0)
             ELSE IF sel # None THEN Some(sel[1] + 1)
             ELSE Some(0)

\* Picker::do_move_down
do_move_down(sel, item_count) ==
    IF sel = Some(0)
    THEN IF item_count = 0 THEN sel ELSE Some(item_count - 1)
    ELSE IF sel # None THEN Some(sel[1] - 1)
    ELSE Some(0)

\* Picker::move_up
move_up(pos, sel, item_count) ==
    IF pos = "Bottom" THEN do_move_up(sel, item_count) ELSE do_move_down(sel, item_count)

\* Picker::move_down
move_down(pos, sel, item_count) ==
    IF pos = "Bottom" THEN do_move_down(sel, item_count) ELSE do_move_up(sel, item_count)

(***************************************************************************)
(* The line editor: each handler yields the new filter and cursor, whether *)
(* it reparsed the matcher pattern, or that it panicked.                   *)
(***************************************************************************)
Edit(str, cur, reparse) ==
    [filter |-> str, cursor_pos |-> cur, reparse |-> reparse, panic |-> FALSE]

Panic(str, cur) ==
    [filter |-> str, cursor_pos |-> cur, reparse |-> FALSE, panic |-> TRUE]

\* Picker::update_filter
update_filter(str, cur, c) ==
    IF StrLen(str) = U16_MAX THEN Edit(str, cur, FALSE)
    ELSE IF ~IsCharBoundary(str, cur) THEN Panic(str, cur)
    ELSE Edit(StrInsert(str, cur, c), cur + 1, TRUE)

\* Picker::remove_filter
remove_filter(str, cur) ==
    IF cur = 0 THEN Edit(str, cur, FALSE)
    ELSE IF ~CanRemove(str, cur - 1) THEN Panic(str, cur)
    ELSE LET new == StrRemove(str, cur - 1)
         IN  Edit(new, cur - 1, new # str)

\* Picker::delete
delete(str, cur) ==
    IF cur = StrLen(str) THEN Edit(str, cur, FALSE)
    ELSE IF ~CanRemove(str, cur) THEN Panic(str, cur)
    ELSE LET new == StrRemove(str, cur)
         IN  Edit(new, cur, new # str)

\* take_while(pred).count() on a by_ref iterator
RECURSIVE CountWhile(_, _)
CountWhile(chars, spaces) ==
    IF chars = <<>> \/ (Head(chars) = " ") # spaces THEN 0
    ELSE 1 + CountWhile(Tail(chars), spaces)

\* what by_ref leaves behind: take_while also consumes the element that
\* ended the run
AfterWhile(chars, spaces) ==
    LET n == CountWhile(chars, spaces)
    IN  SubSeq(chars, n + 2, Len(chars))

\* mutation: the char that ended the first take_while is not counted
delete_word_uncounted(str, cur, overflow_checks) ==
    IF cur > Len(str) /\ overflow_checks THEN Panic(str, cur)
    ELSE LET chars == IF cur > Len(str) THEN <<>> ELSE Reverse(SubSeq(str, 1, cur))
             length == Min(CountWhile(chars, TRUE)
                             + CountWhile(AfterWhile(chars, TRUE), FALSE), cur)
             new_cursor_pos == cur - length
         IN  IF ~CanDrain(str, new_cursor_pos, cur) THEN Panic(str, cur)
             ELSE LET new == StrDrain(str, new_cursor_pos, cur)
                  IN  Edit(new, new_cursor_pos, new # str)
\* Picker::delete_word; chars().count() - cursor_pos overflows when the
\* cursor is past the char count: a panic with overflow checks, a wrapped
\* skip (nothing left to iterate) without
delete_word(str, cur, overflow_checks) ==
    IF cur > Len(str) /\ overflow_checks THEN Panic(str, cur)
    ELSE LET chars == IF cur > Len(str) THEN <<>> ELSE Reverse(SubSeq(str, 1, cur))
             length == Min(1 + CountWhile(chars, TRUE)
                             + CountWhile(AfterWhile(chars, TRUE), FALSE), cur)
             new_cursor_pos == cur - length
         IN  IF ~CanDrain(str, new_cursor_pos, cur) THEN Panic(str, cur)
             ELSE LET new == StrDrain(str, new_cursor_pos, cur)
                  IN  Edit(new, new_cursor_pos, new # str)

\* mutation: the pattern is reparsed whether or not the drain removed anything
delete_to_line_always(str, cur, forward) ==
    IF forward
    THEN IF ~CanDrain(str, cur, StrLen(str)) THEN Panic(str, cur)
         ELSE Edit(StrDrain(str, cur, StrLen(str)), cur, TRUE)
    ELSE IF ~CanDrain(str, 0, cur) THEN Panic(str, cur)
         ELSE Edit(StrDrain(str, 0, cur), 0, TRUE)
\* Picker::delete_to_line
delete_to_line(str, cur, forward) ==
    IF forward
    THEN IF ~CanDrain(str, cur, StrLen(str)) THEN Panic(str, cur)
         ELSE LET new == StrDrain(str, cur, StrLen(str))
              IN  Edit(new, cur, new # str)
    ELSE IF ~CanDrain(str, 0, cur) THEN Panic(str, cur)
         ELSE LET new == StrDrain(str, 0, cur)
              IN  Edit(new, 0, new # str)

\* Picker::move_cursor_left
move_cursor_left(str, cur) == Edit(str, IF cur > 0 THEN cur - 1 ELSE cur, FALSE)

\* mutation: the cursor moves right without looking at the length
move_cursor_right_unchecked(str, cur) == Edit(str, cur + 1, FALSE)
\* Picker::move_cursor_right
move_cursor_right(str, cur) == Edit(str, IF cur < StrLen(str) THEN cur + 1 ELSE cur, FALSE)

\* Picker::move_to_start
move_to_start(str, cur) == Edit(str, 0, FALSE)

\* Picker::move_to_end
move_to_end(str, cur) == Edit(str, IF StrLen(str) <= U16_MAX THEN StrLen(str) ELSE 0, FALSE)

(***************************************************************************)
(* A handler of the line editor on the ASCII filters a user can have typed *)
(***************************************************************************)
WordChars == {"a", "b", " "}

\* the chars of a query: lowercase, uppercase, the negation mark and a char
\* of two bytes
QueryChars == {"a", "A", "!", WideChar}

\* a filter of these chars and a cursor_pos within it
EditorInputs(chars) ==
    {in \in {[filter |-> str, cursor_pos |-> cur] :
                str \in SeqsUpTo(chars, MaxWordLen), cur \in 0..MaxWordLen} :
        in.cursor_pos <= Len(in.filter)}

EditorIdle ==
    /\ ed_pc = "idle"
    /\ ed_in = <<>>
    /\ ed_out = <<>>

\* self.delete_word()
WordDelete ==
    /\ ed_pc = "ready"
    /\ \E overflow_checks \in BOOLEAN :
          ed_out' = delete_word(ed_in.filter, ed_in.cursor_pos, overflow_checks)
    /\ ed_pc' = "done"
    /\ UNCHANGED <<ed_in, dedupVars, catalogVars, discoveryVars, pickerVars, navVars,
                   configVars, ansiVars, mergeVars, marksVars>>

\* a handler that changes the filter, and the append argument it passes on
\* to pattern.reparse when it calls update_matcher_pattern
Reparsing(h) ==
    /\ ed_pc = "ready"
    /\ ed_out' = [edit |-> h,
                  append |-> h.reparse /\ update_matcher_pattern(h.filter, ed_in.filter)]
    /\ ed_pc' = "done"
    /\ UNCHANGED <<ed_in, dedupVars, catalogVars, discoveryVars, pickerVars, navVars,
                   configVars, ansiVars, mergeVars, marksVars>>

\* self.update_filter(c)
ReparseUpdateFilter ==
    \E c \in QueryChars : Reparsing(update_filter(ed_in.filter, ed_in.cursor_pos, c))

\* self.remove_filter()
ReparseRemoveFilter == Reparsing(remove_filter(ed_in.filter, ed_in.cursor_pos))

\* self.delete()
ReparseDelete == Reparsing(delete(ed_in.filter, ed_in.cursor_pos))

\* self.delete_word()
ReparseDeleteWord ==
    \E overflow_checks \in BOOLEAN :
        Reparsing(delete_word(ed_in.filter, ed_in.cursor_pos, overflow_checks))

\* self.delete_to_line(forward)
ReparseDeleteToLine ==
    \E forward \in BOOLEAN : Reparsing(delete_to_line(ed_in.filter, ed_in.cursor_pos, forward))

(***************************************************************************)
(* render: the layout of a frame                                           *)
(***************************************************************************)
\* terminal sizes <<width, height>> f.area() can report
Sizes == {<<80, 24>>, <<80, 40>>, <<81, 41>>, <<80, 60>>}

\* u16::div_ceil
DivCeil(a, b) == (a + b - 1) \div b

\* mutation: the width is halved rounding down
render_split_floor(has_preview, size) ==
    IF ~has_preview THEN "None"
    ELSE IF size[1] \div 2 >= size[2] THEN "Horizontal"
    ELSE "Vertical"
\* the preview split render chooses
render_split(has_preview, size) ==
    IF ~has_preview THEN "None"
    ELSE IF DivCeil(size[1], 2) >= size[2] THEN "Horizontal"
    ELSE "Vertical"

\* the local input_position of render: the vertical split overrides it
render_input_position(pos, split) ==
    IF split = "Vertical" THEN "Bottom" ELSE pos

\* `match input_position { .. list_direction = .. }`
render_list_direction(pos) ==
    IF pos = "Top" THEN "TopToBottom" ELSE "BottomToTop"

\* the rows of the List widget: the labels of the matched items
render_list(snap) == [i \in 1..Len(snap) |-> Items[snap[i]]]

\* the row the List widget draws with the highlight style and symbol
render_highlighted(rows, sel) ==
    IF sel # None /\ sel[1] < Len(rows) THEN Some(rows[sel[1] + 1]) ELSE None

\* the frame render draws for a terminal of this size
render(has_preview, pos, size, sel, snap) ==
    LET split == render_split(has_preview, size)
        eff == render_input_position(pos, split)
        rows == render_list(snap)
    IN  [area |-> size, split |-> split, input_position |-> eff,
         list_direction |-> render_list_direction(eff),
         list |-> rows,
         highlighted |-> render_highlighted(rows, render_selection(sel, Len(rows)))]

(***************************************************************************)
(* Keys and the keymap (src/keymap.rs)                                     *)
(***************************************************************************)
\* struct Key
Key(code, modifiers) == [code |-> code, modifiers |-> modifiers]

\* KeyCode::Char(c), and the key codes that carry nothing
Char(c) == <<"Char", c>>
Code(name) == <<name>>

\* KeyModifiers
NoModifiers == {}
Control == {"CONTROL"}
Shift == {"SHIFT"}
Alt == {"ALT"}

\* default_keymap()
default_keymap ==
    Key(Char("c"), Control) :> "Cancel" @@
    Key(Code("Esc"), NoModifiers) :> "Cancel" @@
    Key(Code("Enter"), NoModifiers) :> "Confirm" @@
    Key(Code("Delete"), NoModifiers) :> "Delete" @@
    Key(Char("d"), Control) :> "Delete" @@
    Key(Code("Backspace"), NoModifiers) :> "Backspace" @@
    Key(Code("Down"), NoModifiers) :> "MoveDown" @@
    Key(Char("j"), Control) :> "MoveDown" @@
    Key(Char("n"), Control) :> "MoveDown" @@
    Key(Code("Up"), NoModifiers) :> "MoveUp" @@
    Key(Char("k"), Control) :> "MoveUp" @@
    Key(Char("p"), Control) :> "MoveUp" @@
    Key(Code("Left"), NoModifiers) :> "CursorLeft" @@
    Key(Code("Right"), NoModifiers) :> "CursorRight" @@
    Key(Char("w"), Control) :> "DeleteWord" @@
    Key(Char("u"), Control) :> "DeleteToLineStart" @@
    Key(Char("a"), Control) :> "MoveToLineStart" @@
    Key(Char("e"), Control) :> "MoveToLineEnd"

\* the defaults with every entry of the user's keymap inserted over them
with_defaults(user) ==
    [k \in DOMAIN default_keymap \cup DOMAIN user |->
        IF k \in DOMAIN user THEN user[k] ELSE default_keymap[k]]

\* Picker::new: the keymap of the picker
new_keymap(arg) == IF arg # None THEN with_defaults(arg[1]) ELSE default_keymap

\* HashMap::get
get(map, k) == IF k \in DOMAIN map THEN Some(map[k]) ELSE None

\* the press that produces the char: crossterm reports Shift with an
\* uppercase letter
CharKey(c) == Key(Char(c), IF c \in UpperChars THEN Shift ELSE NoModifiers)

\* the presses the terminal delivers: one key for each binding the model
\* follows, the keys of the chars, Alt with a char, and a function key
KeyEvents(chars) ==
    {Key(Code(name), NoModifiers) :
        name \in {"Esc", "Enter", "Delete", "Backspace", "Down", "Up", "Left", "Right",
                  "F1", "F2"}}
    \cup {Key(Char(c), Control) : c \in {"c", "w", "u", "a", "e", "l"}}
    \cup {CharKey(c) : c \in chars}
    \cup {Key(Char("a"), Alt)}

\* a shortcuts table of the config file that binds the two actions the
\* defaults leave without a key
UserKeymap ==
    Key(Char("l"), Control) :> "DeleteToLineEnd" @@
    Key(Code("F2"), NoModifiers) :> "Noop"

\* keymaps a user can configure: none, the one above, and one that rebinds
\* Enter and takes the key of a char
UserKeymaps ==
    {None, Some(UserKeymap),
     Some(Key(Code("Enter"), NoModifiers) :> "Cancel" @@ Key(Char("a"), NoModifiers) :> "Noop")}

(***************************************************************************)
(* main_loop                                                               *)
(***************************************************************************)
PickerIdle ==
    /\ pk_pc = "idle"
    /\ status = "Running"
    /\ result = None
    /\ filter = <<>>
    /\ cursor_pos = 0
    /\ selection = None
    /\ input_position = "Bottom"
    /\ pattern = <<>>
    /\ running = FALSE
    /\ snapshot = <<>>
    /\ event = None
    /\ preview = FALSE
    /\ frame = None
    /\ reparsed = FALSE
    /\ append = FALSE
    /\ mode = "Unchanged"
    /\ press = None
    /\ keymap_arg = None
    /\ keymap = <<>>
    /\ keyboard = {}
    /\ terminal = "cooked"
    /\ run_ret = None
    /\ nav_start = None
    /\ nav_trail = <<>>

\* Config::search_dirs is not running
ConfigIdle ==
    /\ cfg_pc = "idle"
    /\ cfg_in = <<>>
    /\ cfg_out = <<>>

\* str_to_text is not running
AnsiIdle ==
    /\ st_pc = "idle"
    /\ st_in = <<>>
    /\ st_out = <<>>

notPicker ==
    <<dedupVars, catalogVars, discoveryVars, navVars, configVars, ansiVars, callVars>>

\* self.matcher.tick(10); self.update_selection(): within its budget the
\* matcher either finishes the outstanding work or leaves the old snapshot
Tick ==
    /\ pk_pc = "tick"
    /\ \E finished \in BOOLEAN :
          /\ finished => running
          /\ snapshot' = IF finished THEN Rescored(mode, snapshot, pattern) ELSE snapshot
          /\ running' = (running /\ ~finished)
          /\ mode' = IF finished THEN "Unchanged" ELSE mode
    /\ selection' = update_selection(selection, Len(snapshot'))
    /\ event' = None
    /\ press' = None
    /\ reparsed' = FALSE
    /\ append' = FALSE
    /\ pk_pc' = "draw"
    /\ UNCHANGED <<status, result, filter, cursor_pos, input_position, pattern, preview, frame, runVars,
                   setupVars, notPicker>>

\* terminal.draw(|f| self.render(f)) succeeds
Draw ==
    /\ pk_pc = "draw"
    /\ \E size \in Sizes : frame' = Some(render(preview, input_position, size, selection, snapshot))
    /\ selection' = render_selection(selection, matched_item_count)
    /\ pk_pc' = "read"
    /\ UNCHANGED <<status, result, filter, cursor_pos, input_position, pattern, running, mode,
                   snapshot, event, press, preview, reparsed, append, runVars,
                   setupVars, notPicker>>

\* terminal.draw fails: Err(TuiError)
DrawFail ==
    /\ pk_pc = "draw"
    /\ status' = "Failed"
    /\ pk_pc' = "done"
    /\ UNCHANGED <<result, filter, cursor_pos, selection, input_position, pattern, running, mode,
                   snapshot, event, press, preview, frame, reparsed, append, runVars,
                   setupVars, notPicker>>

\* event::read fails: Err(TuiError)
ReadFail ==
    /\ pk_pc = "read"
    /\ event' = Some("ReadError")
    /\ press' = None
    /\ status' = "Failed"
    /\ pk_pc' = "done"
    /\ UNCHANGED <<result, filter, cursor_pos, selection, input_position, pattern, running, mode,
                   snapshot, preview, frame, reparsed, append, runVars,
                   setupVars, notPicker>>

\* the presses whose Key the keymap binds to the action
Bound(action) == {k \in KeyEvents(keyboard) : get(keymap, k) = Some(action)}

\* the presses self.keymap.0.get(&key.into()) answers with None
Unbound == {k \in KeyEvents(keyboard) : get(keymap, k) = None}

\* an event that reaches no handler
Ignore(k, ev) ==
    /\ pk_pc = "read"
    /\ event' = Some(ev)
    /\ press' = k
    /\ pk_pc' = "tick"
    /\ UNCHANGED <<status, result, filter, cursor_pos, selection, input_position, pattern,
                   running, mode, snapshot, preview, frame, reparsed, append, runVars,
                   setupVars, notPicker>>

\* an event that is not Event::Key (resize, focus, mouse, paste)
OtherEvent == Ignore(None, "NotKey")

\* a key event whose kind is not Press
KeyNotPress == Ignore(None, "NotPress")

\* a press with no binding whose code is not a char
KeyOther ==
    /\ pk_pc = "read"
    /\ \E k \in Unbound : k.code[1] # "Char" /\ Ignore(Some(k), "Unbound")

\* Some(PickerAction::Noop)
KeyNoop ==
    /\ pk_pc = "read"
    /\ \E k \in Bound("Noop") : Ignore(Some(k), "Noop")

\* Some(PickerAction::Cancel) => return Ok(None)
KeyCancel ==
    /\ pk_pc = "read"
    /\ event' = Some("Cancel")
    /\ \E k \in Bound("Cancel") : press' = Some(k)
    /\ status' = "Cancelled"
    /\ result' = None
    /\ pk_pc' = "done"
    /\ UNCHANGED <<filter, cursor_pos, selection, input_position, pattern, running, mode,
                   snapshot, preview, frame, reparsed, append, runVars,
                   setupVars, notPicker>>

\* Some(PickerAction::Confirm): return the selected item, if there is one
KeyConfirm ==
    /\ pk_pc = "read"
    /\ event' = Some("Confirm")
    /\ \E k \in Bound("Confirm") : press' = Some(k)
    /\ LET selected == get_selected(selection, snapshot)
       IN  IF selected # None
           THEN /\ status' = "Confirmed"
                /\ result' = selected
                /\ pk_pc' = "done"
           ELSE /\ pk_pc' = "tick"
                /\ UNCHANGED <<status, result>>
    /\ UNCHANGED <<filter, cursor_pos, selection, input_position, pattern, running, mode,
                   snapshot, preview, frame, reparsed, append, runVars,
                   setupVars, notPicker>>

\* a press dispatched to a handler of the line editor
Edited(k, ev, h) ==
    /\ pk_pc = "read"
    /\ event' = Some(ev)
    /\ press' = Some(k)
    /\ IF h.panic
       THEN /\ status' = "Panicked"
            /\ pk_pc' = "done"
            /\ UNCHANGED <<filter, cursor_pos, pattern, running, mode, reparsed, append>>
       ELSE /\ filter' = h.filter
            /\ reparsed' = h.reparse
            /\ append' = (h.reparse /\ update_matcher_pattern(h.filter, filter))
            /\ cursor_pos' = h.cursor_pos
            /\ pattern' = IF h.reparse THEN h.filter ELSE pattern
            /\ mode' = IF h.reparse THEN reparse_status(pattern, running, append') ELSE mode
            /\ running' = (running \/ h.reparse)
            /\ pk_pc' = "tick"
            /\ UNCHANGED status
    /\ UNCHANGED <<result, selection, input_position, snapshot, preview, frame, runVars,
                   setupVars, notPicker>>

\* None => if let KeyCode::Char(c) = key.code { self.update_filter(c) }
KeyChar ==
    /\ pk_pc = "read"
    /\ \E k \in Unbound :
           /\ k.code[1] = "Char"
           /\ Len(filter) < MaxFilterLen
           /\ Edited(k, "Char", update_filter(filter, cursor_pos, k.code[2]))

KeyBackspace ==
    /\ pk_pc = "read"
    /\ \E k \in Bound("Backspace") : Edited(k, "Backspace", remove_filter(filter, cursor_pos))

KeyDelete ==
    /\ pk_pc = "read"
    /\ \E k \in Bound("Delete") : Edited(k, "Delete", delete(filter, cursor_pos))

KeyDeleteWord ==
    /\ pk_pc = "read"
    /\ \E k \in Bound("DeleteWord"), overflow_checks \in BOOLEAN :
           Edited(k, "DeleteWord", delete_word(filter, cursor_pos, overflow_checks))

KeyDeleteToLineStart ==
    /\ pk_pc = "read"
    /\ \E k \in Bound("DeleteToLineStart") :
           Edited(k, "DeleteToLineStart", delete_to_line(filter, cursor_pos, FALSE))

KeyDeleteToLineEnd ==
    /\ pk_pc = "read"
    /\ \E k \in Bound("DeleteToLineEnd") :
           Edited(k, "DeleteToLineEnd", delete_to_line(filter, cursor_pos, TRUE))

KeyCursorLeft ==
    /\ pk_pc = "read"
    /\ \E k \in Bound("CursorLeft") : Edited(k, "CursorLeft", move_cursor_left(filter, cursor_pos))

KeyCursorRight ==
    /\ pk_pc = "read"
    /\ \E k \in Bound("CursorRight") :
           Edited(k, "CursorRight", move_cursor_right(filter, cursor_pos))

KeyMoveToLineStart ==
    /\ pk_pc = "read"
    /\ \E k \in Bound("MoveToLineStart") :
           Edited(k, "MoveToLineStart", move_to_start(filter, cursor_pos))

KeyMoveToLineEnd ==
    /\ pk_pc = "read"
    /\ \E k \in Bound("MoveToLineEnd") :
           Edited(k, "MoveToLineEnd", move_to_end(filter, cursor_pos))

\* a press dispatched to move_up or move_down
Moved(k, ev, sel) ==
    /\ pk_pc = "read"
    /\ event' = Some(ev)
    /\ press' = Some(k)
    /\ selection' = sel
    /\ pk_pc' = "tick"
    /\ UNCHANGED <<status, result, filter, cursor_pos, input_position, pattern, running, mode,
                   snapshot, preview, frame, reparsed, append, runVars,
                   setupVars, notPicker>>

KeyMoveUp ==
    /\ pk_pc = "read"
    /\ \E k \in Bound("MoveUp") :
           Moved(k, "MoveUp", move_up(input_position, selection, matched_item_count))

KeyMoveDown ==
    /\ pk_pc = "read"
    /\ \E k \in Bound("MoveDown") :
           Moved(k, "MoveDown", move_down(input_position, selection, matched_item_count))

(***************************************************************************)
(* Picker::run after main_loop has ended                                   *)
(***************************************************************************)
\* mutation: run goes on to its return without restoring the terminal
RunRestoreSkipped ==
    /\ pk_pc = "done" /\ status \in {"Confirmed", "Cancelled", "Failed"}
    /\ pk_pc' = "restored"
    /\ UNCHANGED <<status, result, filter, cursor_pos, selection, input_position, pattern,
                   running, mode, snapshot, event, press, preview, frame, reparsed, append, runVars, setupVars, notPicker>>
\* main_loop returned Ok or Err: ratatui::restore()
RunRestore ==
    /\ pk_pc = "done" /\ status \in {"Confirmed", "Cancelled", "Failed"}
    /\ terminal' = "restored"
    /\ pk_pc' = "restored"
    /\ UNCHANGED <<status, result, filter, cursor_pos, selection, input_position, pattern,
                   running, mode, snapshot, event, press, preview, frame, reparsed, append, run_ret, setupVars, notPicker>>

Ok(x) == [ok |-> TRUE, value |-> x]
Err(e) == [ok |-> FALSE, value |-> e]

\* Ok(selected_str?)
RunReturn ==
    /\ pk_pc = "restored"
    /\ run_ret' = Some(IF status = "Failed" THEN Err("TuiError") ELSE Ok(result))
    /\ pk_pc' = "returned"
    /\ UNCHANGED <<status, result, filter, cursor_pos, selection, input_position, pattern,
                   running, mode, snapshot, event, press, preview, frame, reparsed, append, terminal, setupVars, notPicker>>

\* a handler panicked: the panic hook installed by ratatui::init() restores
\* the terminal and run never returns
PanicUnwind ==
    /\ pk_pc = "done" /\ status = "Panicked"
    /\ terminal' = "restored"
    /\ pk_pc' = "aborted"
    /\ UNCHANGED <<status, result, filter, cursor_pos, selection, input_position, pattern,
                   running, mode, snapshot, event, press, preview, frame, reparsed, append, run_ret, setupVars, notPicker>>

(***************************************************************************)
(* Config::search_dirs (src/configs.rs)                                    *)
(*                                                                         *)
(* A configured path is the string of the config file; shellexpand::full   *)
(* and canonicalize turn it into the canonical path of an existing         *)
(* directory, or fail.                                                     *)
(***************************************************************************)
\* configured strings: a home-relative path, a symbolic link and a path that
\* names an undefined variable
RawPaths == {"~/a", "/l", "$X/c"}

\* the canonical paths that may exist
CanonicalPaths == {"/home/a", "/b"}

LegacyDepth == 10

\* shellexpand::full(..).ok()
Expand(raw) ==
    IF raw = "~/a" THEN Some("/home/a")
    ELSE IF raw = "$X/c" THEN None
    ELSE Some(raw)

\* canonicalize(..).ok(): links are resolved and the target must exist
Canonicalize(expanded, existing) ==
    LET target == IF expanded = "/l" THEN "/b" ELSE expanded
    IN  IF target \in existing THEN Some(target) ELSE None

\* the body of both filter_map closures up to the `?`s
Resolve(raw, existing) ==
    IF Expand(raw) = None THEN None ELSE Canonicalize(Expand(raw)[1], existing)

\* search_dirs.iter().filter_map(..).collect()
RECURSIVE ResolveDirs(_, _)
ResolveDirs(dirs, existing) ==
    IF dirs = <<>> THEN <<>>
    ELSE LET path == Resolve(Head(dirs).path, existing)
             rest == ResolveDirs(Tail(dirs), existing)
         IN  IF path = None THEN rest
             ELSE <<SearchDirectory(path[1], Head(dirs).depth)>> \o rest

\* search_paths.iter().filter_map(..): legacy entries get depth 10
RECURSIVE ResolvePaths(_, _)
ResolvePaths(paths, existing) ==
    IF paths = <<>> THEN <<>>
    ELSE LET path == Resolve(Head(paths), existing)
             rest == ResolvePaths(Tail(paths), existing)
         IN  IF path = None THEN rest
             ELSE <<SearchDirectory(path[1], LegacyDepth)>> \o rest

\* Option::is_none_or(Vec::is_empty)
is_none_or_empty(opt) == opt = None \/ opt[1] = <<>>

\* mutation: one of the two settings missing is taken for both missing
NoSearchPathEither(config) ==
    is_none_or_empty(config.search_dirs) \/ is_none_or_empty(config.search_paths)
\* the first test of Config::search_dirs
NoSearchPath(config) ==
    is_none_or_empty(config.search_dirs) /\ is_none_or_empty(config.search_paths)

\* Config::search_dirs
search_dirs(config) ==
    IF NoSearchPath(config) THEN Err("NoDefaultSearchPath")
    ELSE LET dirs == IF config.search_dirs # None
                     THEN ResolveDirs(config.search_dirs[1], config.existing)
                     ELSE <<>>
             legacy == IF config.search_paths # None /\ config.search_paths[1] # <<>>
                       THEN ResolvePaths(config.search_paths[1], config.existing)
                       ELSE <<>>
         IN  IF dirs \o legacy = <<>> THEN Err("NoValidSearchPath")
             ELSE Ok(dirs \o legacy)

\* impl Display for ConfigError
ConfigErrorDisplay(e) ==
    IF e = "NoDefaultSearchPath" THEN "No default search path was found"
    ELSE IF e = "NoValidSearchPath" THEN "No valid search path was found"
    ELSE "other"

\* the configurations search_dirs is called on, with the directories that
\* exist at that time
ConfigInputs ==
    LET dirs == {SearchDirectory(raw, d) : raw \in RawPaths, d \in {0, 2}}
    IN  [search_dirs : {None} \cup {Some(l) : l \in SeqsUpTo(dirs, MaxCfgDirs)},
         search_paths : {None} \cup {Some(l) : l \in SeqsUpTo(RawPaths, MaxCfgDirs)},
         existing : SUBSET CanonicalPaths]

\* config.search_dirs()
ConfigSearchDirs ==
    /\ cfg_pc = "ready"
    /\ cfg_out' = Some(search_dirs(cfg_in))
    /\ cfg_pc' = "done"
    /\ UNCHANGED <<cfg_in, dedupVars, catalogVars, discoveryVars, pickerVars, navVars, ansiVars,
                   callVars>>

(***************************************************************************)
(* marks set (src/marks.rs, Config::add_mark)                              *)
(*                                                                         *)
(* The key of a mark is the sequence of its chars.                         *)
(***************************************************************************)
DigitChars == <<"0", "1", "2", "3", "4", "5", "6", "7", "8", "9">>

\* usize::to_string
RECURSIVE to_string(_)
to_string(n) ==
    IF n < 10 THEN <<DigitChars[n + 1]>>
    ELSE to_string(n \div 10) \o <<DigitChars[(n % 10) + 1]>>

DigitValue(c) == CHOOSE d \in 0..9 : DigitChars[d + 1] = c

RECURSIVE ParseDigits(_, _)
ParseDigits(str, acc) ==
    IF str = <<>> THEN acc
    ELSE ParseDigits(Tail(str), 10 * acc + DigitValue(Head(str)))

\* str::parse::<usize>().ok(): decimal digits after an optional "+"
parse_usize(str) ==
    LET digits == IF str # <<>> /\ Head(str) = "+" THEN Tail(str) ELSE str
    IN  IF digits # <<>> /\ \A i \in 1..Len(digits) : digits[i] \in Range(DigitChars)
        THEN Some(ParseDigits(digits, 0))
        ELSE None

\* Path::file_name of a canonical path
file_name(path) == IF path = "/home/a" THEN "a" ELSE "b"

\* path_to_session(..).ok()
path_to_session(path, existing) ==
    LET canonical == Resolve(path, existing)
    IN  IF canonical = None THEN None
        ELSE Some([name |-> file_name(canonical[1]), path |-> canonical[1]])

\* the filter_map of get_marks: the marks whose key is a number and whose
\* path resolves, each with its index
MarkItems(marks, existing) ==
    {[index |-> parse_usize(key)[1], session |-> path_to_session(marks[key], existing)[1],
      key |-> key] :
        key \in {k \in DOMAIN marks :
                    parse_usize(k) # None /\ path_to_session(marks[k], existing) # None}}

\* get_marks: the lists items.sort_by can leave; a HashMap iterates in an
\* arbitrary order and the sort keeps marks of equal index in that order
get_marks(config_marks, existing) ==
    IF config_marks = None THEN None
    ELSE LET items == MarkItems(config_marks[1], existing)
         IN  Some({l \in Perms(SetToSeq(items)) :
                      \A i \in 1..(Len(l) - 1) : l[i].index <= l[i + 1].index})

\* items.iter().enumerate().take_while(|(i, (index, _))| i == index).count()
LeadingRun(items) ==
    IF \E i \in 1..Len(items) : items[i].index # i - 1
    THEN (CHOOSE i \in 1..Len(items) :
             items[i].index # i - 1 /\ \A j \in 1..(i - 1) : items[j].index = j - 1) - 1
    ELSE Len(items)

\* Config::add_mark
add_mark(config_marks, path, index) ==
    IF config_marks # None
    THEN Some([k \in DOMAIN config_marks[1] \cup {to_string(index)} |->
                  IF k = to_string(index) THEN path ELSE config_marks[1][k]])
    ELSE Some([k \in {to_string(index)} |-> path])

\* the keys marks are filed under in the config file
MarkKeys == {<<"0">>, <<"1">>, <<"2">>, <<"0", "1">>, <<"x">>}

\* the paths of marks: RawPaths that expand
MarkPaths == {"~/a", "/l"}

\* the marks a config file can hold
MarkMaps ==
    UNION {[K -> MarkPaths] : K \in {S \in SUBSET MarkKeys : Cardinality(S) <= MaxMarks}}

\* MarksSetCommand, the config file, the current directory and the
\* directories that exist
MarksInputs ==
    [index : {None, Some(0), Some(1)},
     path : {None, Some("~/a")},
     current_dir : {Ok("/b"), Err("IoError")},
     marks : {None} \cup {Some(m) : m \in MarkMaps},
     existing : SUBSET CanonicalPaths]

MarksIdle ==
    /\ mk_pc = "idle"
    /\ mk_in = <<>>
    /\ mk_marks = None
    /\ mk_index = None
    /\ mk_out = None

\* set up to the `?`s of current_dir, then config.add_mark and config.save
MarksSet ==
    /\ mk_pc = "ready"
    /\ \E items \in IF get_marks(mk_in.marks, mk_in.existing) = None THEN {<<>>}
                    ELSE get_marks(mk_in.marks, mk_in.existing)[1] :
          LET index == IF mk_in.index # None THEN mk_in.index[1] ELSE LeadingRun(items)
          IN  IF mk_in.path = None /\ ~mk_in.current_dir.ok
              THEN /\ mk_out' = Some(Err("IoError"))
                   /\ UNCHANGED <<mk_marks, mk_index>>
              ELSE LET path == IF mk_in.path # None THEN mk_in.path[1]
                               ELSE mk_in.current_dir.value
                   IN  /\ mk_marks' = add_mark(mk_in.marks, path, index)
                       /\ mk_index' = Some(index)
                       /\ mk_out' = Some(Ok("()"))
    /\ mk_pc' = "done"
    /\ UNCHANGED <<mk_in, dedupVars, catalogVars, discoveryVars, pickerVars, navVars,
                   configVars, ansiVars, mergeVars, editorVars>>

\* config.save() fails: the config file keeps the marks it had
MarksSetSaveFailed ==
    /\ mk_pc = "ready"
    /\ mk_in.path # None \/ mk_in.current_dir.ok
    /\ mk_out' = Some(Err("ConfigError"))
    /\ mk_pc' = "done"
    /\ UNCHANGED <<mk_in, mk_marks, mk_index, dedupVars, catalogVars, discoveryVars,
                   pickerVars, navVars, configVars, ansiVars, mergeVars, editorVars>>

(***************************************************************************)
(* str_to_text (src/picker/preview.rs)                                     *)
(*                                                                         *)
(* A text is the sequence of its chars, "ESC" standing for \x1b and "LF"   *)
(* for the line feed.  A Span is its content and style, a Line the sequence *)
(* of its spans, a Text the sequence of its lines.                         *)
(***************************************************************************)
\* ratatui's Modifier flags
Modifiers ==
    {"BOLD", "DIM", "ITALIC", "UNDERLINED", "SLOW_BLINK", "RAPID_BLINK", "REVERSED",
     "HIDDEN", "CROSSED_OUT"}

\* Style::default()
DefaultStyle ==
    [fg |-> "None", bg |-> "None", underline_color |-> "None", add |-> {}, sub |-> {}]

\* Style::reset()
ResetStyle ==
    [fg |-> "Reset", bg |-> "Reset", underline_color |-> "Reset", add |-> {},
     sub |-> Modifiers]

\* Style::add_modifier
AddModifier(style, m) ==
    [style EXCEPT !.add = @ \cup {m}, !.sub = @ \ {m}]

\* Style::remove_modifier
RemoveModifier(style, m) ==
    [style EXCEPT !.add = @ \ {m}, !.sub = @ \cup {m}]

\* the colours of "30".."37" and "40".."47", and of "90".."97" | "100".."107"
StandardColors == <<"Black", "Red", "Green", "Yellow", "Blue", "Magenta", "Cyan", "Gray">>
BrightColors ==
    <<"DarkGray", "LightRed", "LightGreen", "LightYellow", "LightBlue", "LightMagenta",
      "LightCyan", "White">>

\* str::split(';')
RECURSIVE SplitSemicolon(_)
SplitSemicolon(str) ==
    IF \E i \in 1..Len(str) : str[i] = ";"
    THEN LET k == CHOOSE i \in 1..Len(str) :
                      str[i] = ";" /\ \A j \in 1..(i - 1) : str[j] # ";"
         IN  <<SubSeq(str, 1, k - 1)>> \o SplitSemicolon(SubSeq(str, k + 1, Len(str)))
    ELSE <<str>>

\* crossterm's parse_next_u8: the next value, if there is one and it is a u8
parse_next_u8(values) ==
    IF values = <<>> \/ parse_usize(Head(values)) = None THEN None
    ELSE IF parse_usize(Head(values))[1] > 255 THEN None
    ELSE parse_usize(Head(values))

\* crossterm's Color::parse_ansi_iter: `5;<n>` or `2;<r>;<g>;<b>`
parse_ansi_iter(values) ==
    LET kind == parse_next_u8(values) IN
    IF kind = Some(5)
    THEN IF Len(values) = 2 /\ parse_next_u8(Tail(values)) # None
         THEN Some(<<"Indexed", parse_next_u8(Tail(values))[1]>>)
         ELSE None
    ELSE IF kind = Some(2)
    THEN IF Len(values) = 4 /\ \A i \in 2..4 : parse_next_u8(<<values[i]>>) # None
         THEN Some(<<"Rgb", parse_next_u8(<<values[2]>>)[1], parse_next_u8(<<values[3]>>)[1],
                     parse_next_u8(<<values[4]>>)[1]>>)
         ELSE None
    ELSE None

\* crossterm's Colored::parse_ansi
parse_ansi(code) ==
    LET values == SplitSemicolon(code)
        first == parse_next_u8(values)
        field == IF first[1] \in {38, 39} THEN "fg"
                 ELSE IF first[1] \in {48, 49} THEN "bg"
                 ELSE "underline_color"
    IN  IF first = None THEN None
        ELSE IF first[1] \in {38, 48, 58}
        THEN IF parse_ansi_iter(Tail(values)) = None THEN None
             ELSE Some([field |-> field, color |-> parse_ansi_iter(Tail(values))[1]])
        ELSE IF first[1] \in {39, 49, 59}
        THEN IF Len(values) > 1 THEN None ELSE Some([field |-> field, color |-> "Reset"])
        ELSE None

\* `"90" | "100" => style.fg(Color::DarkGray)` and the seven arms after it
BrightColor(style, n) ==
    [style EXCEPT !.fg = BrightColors[IF n >= 100 THEN n - 99 ELSE n - 89]]

\* `style = match tspan.as_str() { .. }`
ApplySgr(style, code) ==
    LET Is(n) == code = to_string(n) IN
    IF code = <<>> \/ Is(0) THEN ResetStyle
    ELSE IF Is(1) THEN AddModifier(style, "BOLD")
    ELSE IF Is(3) THEN AddModifier(style, "ITALIC")
    ELSE IF Is(4) THEN AddModifier(style, "UNDERLINED")
    ELSE IF Is(5) THEN AddModifier(style, "RAPID_BLINK")
    ELSE IF Is(6) THEN AddModifier(style, "SLOW_BLINK")
    ELSE IF Is(7) THEN AddModifier(style, "REVERSED")
    ELSE IF Is(9) THEN AddModifier(style, "CROSSED_OUT")
    ELSE IF Is(22) THEN RemoveModifier(style, "BOLD")
    ELSE IF Is(23) THEN RemoveModifier(style, "ITALIC")
    ELSE IF Is(24) THEN RemoveModifier(style, "UNDERLINED")
    ELSE IF Is(25) THEN RemoveModifier(RemoveModifier(style, "RAPID_BLINK"), "SLOW_BLINK")
    ELSE IF Is(27) THEN RemoveModifier(style, "REVERSED")
    ELSE IF Is(29) THEN RemoveModifier(style, "CROSSED_OUT")
    ELSE IF \E n \in 30..37 : Is(n)
    THEN [style EXCEPT !.fg = StandardColors[(CHOOSE n \in 30..37 : Is(n)) - 29]]
    ELSE IF \E n \in 40..47 : Is(n)
    THEN [style EXCEPT !.bg = StandardColors[(CHOOSE n \in 40..47 : Is(n)) - 39]]
    ELSE IF \E n \in 90..97 : Is(n)
    THEN BrightColor(style, CHOOSE n \in 90..97 : Is(n))
    ELSE IF \E n \in 100..107 : Is(n)
    THEN BrightColor(style, CHOOSE n \in 100..107 : Is(n))
    ELSE IF parse_ansi(code) # None
    THEN [style EXCEPT ![parse_ansi(code)[1].field] = parse_ansi(code)[1].color]
    ELSE style

\* Span::styled
Span(content, style) == [content |-> content, style |-> style]

\* the display width of a span's content: a control char takes ctrl_width
\* columns (0 or 1 with the version of unicode-width in the build)
RECURSIVE ContentWidth(_, _)
ContentWidth(content, ctrl_width) ==
    IF content = <<>> THEN 0
    ELSE (IF Head(content) = "ESC" THEN ctrl_width ELSE 1)
         + ContentWidth(Tail(content), ctrl_width)

\* Line::width
RECURSIVE LineWidth(_, _)
LineWidth(spans, ctrl_width) ==
    IF spans = <<>> THEN 0
    ELSE ContentWidth(Head(spans).content, ctrl_width) + LineWidth(Tail(spans), ctrl_width)

\* str::lines: split at line feeds; a final line feed opens no further line
RECURSIVE Lines(_)
Lines(s) ==
    IF s = <<>> THEN <<>>
    ELSE IF \E i \in 1..Len(s) : s[i] = "LF"
         THEN LET k == CHOOSE i \in 1..Len(s) :
                           s[i] = "LF" /\ \A j \in 1..(i - 1) : s[j] # "LF"
              IN  <<SubSeq(s, 1, k - 1)>> \o Lines(SubSeq(s, k + 1, Len(s)))
         ELSE <<s>>

\* mutation: the text before an escape sequence is not pushed as a span
push_before_escape_dropped(spans, tspan, style) == spans
\* `if !tspan.is_empty() { line.spans.push(Span::styled(tspan.clone(), style)) }`
push_before_escape(spans, tspan, style) ==
    IF tspan # <<>> THEN Append(spans, Span(tspan, style)) ELSE spans

\* the body of `for (i, ch) in l.chars().enumerate()`; st.broke is the break
CharStep(st, l, i, max, ctrl_width) ==
    LET ch == l[i + 1] IN
    IF st.broke THEN st
    ELSE IF ~st.ansi_state
    THEN IF ch = "ESC" /\ i + 2 <= Len(l) /\ l[i + 2] = "["
         THEN [st EXCEPT !.spans = push_before_escape(st.spans, st.tspan, st.style),
                         !.tspan = <<>>,
                         !.ansi_state = TRUE]
         ELSE LET pushed == Append(st.tspan, ch) IN
              IF LineWidth(st.spans, ctrl_width) + Len(pushed) = max \/ i = Len(l) - 1
              THEN [st EXCEPT !.spans = Append(st.spans, Span(pushed, st.style)),
                              !.tspan = <<>>,
                              !.broke = TRUE]
              ELSE [st EXCEPT !.tspan = pushed]
    ELSE IF ch = "[" THEN st
    ELSE IF ch = "m"
         THEN [st EXCEPT !.style = ApplySgr(st.style, st.tspan),
                         !.tspan = <<>>,
                         !.ansi_state = FALSE]
    ELSE [st EXCEPT !.tspan = Append(st.tspan, ch)]

\* the chars of l from index i on
RECURSIVE CharLoop(_, _, _, _, _)
CharLoop(st, l, i, max, ctrl_width) ==
    IF i >= Len(l) THEN st
    ELSE CharLoop(CharStep(st, l, i, max, ctrl_width), l, i + 1, max, ctrl_width)

\* the body of `for l in s.lines()`: tspan and style are carried over from
\* the line before, the line and ansi_state start afresh
RECURSIVE LineLoop(_, _, _, _, _, _)
LineLoop(text, tspan, style, lines, max, ctrl_width) ==
    IF lines = <<>> THEN text
    ELSE LET st == CharLoop([spans |-> <<>>, tspan |-> tspan, style |-> style,
                             ansi_state |-> FALSE, broke |-> FALSE],
                            Head(lines), 0, max, ctrl_width)
         IN  LineLoop(Append(text, st.spans), st.tspan, st.style, Tail(lines),
                      max, ctrl_width)

\* str_to_text
str_to_text(s, max, ctrl_width) ==
    LineLoop(<<>>, <<>>, DefaultStyle, Lines(s), max, ctrl_width)

\* the chars the bounded inputs are written with
AnsiChars == {"ESC", "[", "3", "m", "x", "LF"}

\* "\x1b[31mred\x1b[0m plain"
RedPlain ==
    <<"ESC", "[", "3", "1", "m", "r", "e", "d", "ESC", "[", "0", "m",
      " ", "p", "l", "a", "i", "n">>

\* the widths a preview pane is given: area.width - 1
Widths == {2, 80}

\* the numbers written as an SGR parameter in the texts below
SgrParams == 0..109

\* text under the style a first sequence leaves, then a second sequence and
\* more text: ESC [ first m y ESC [ second m x
SgrPair(first, second) ==
    <<"ESC", "[">> \o first \o <<"m", "y", "ESC", "[">> \o second \o <<"m", "x">>

SgrPairs ==
    {SgrPair(first, to_string(n)) :
        first \in {<<>>, to_string(1), to_string(31), to_string(42), to_string(93)},
        n \in SgrParams}

AnsiInputs ==
    [s : SeqsUpTo(AnsiChars, MaxAnsiLen) \cup {RedPlain} \cup SgrPairs,
     max : Widths,
     ctrl_width : {0, 1}]

\* str_to_text(&self.buffer, (area.width - 1).into())
StrToText ==
    /\ st_pc = "ready"
    /\ st_out' = str_to_text(st_in.s, st_in.max, st_in.ctrl_width)
    /\ st_pc' = "done"
    /\ UNCHANGED <<st_in, dedupVars, catalogVars, discoveryVars, pickerVars, navVars,
                   configVars, callVars>>

(***************************************************************************)
(* Navigation calls on a picker whose snapshot does not change             *)
(***************************************************************************)
\* self.do_move_up()
NavUp ==
    /\ pk_pc = "nav"
    /\ Len(nav_trail) < 2 * MaxNav
    /\ selection' = do_move_up(selection, matched_item_count)
    /\ nav_trail' = Append(nav_trail, "up")
    /\ UNCHANGED <<pk_pc, status, result, filter, cursor_pos, input_position, pattern,
                   running, mode, snapshot, event, press, preview, frame, nav_start,
                   reparsed, append, runVars, setupVars, dedupVars, catalogVars, discoveryVars,
                   configVars, ansiVars, callVars>>

\* self.do_move_down()
NavDown ==
    /\ pk_pc = "nav"
    /\ Len(nav_trail) < 2 * MaxNav
    /\ selection' = do_move_down(selection, matched_item_count)
    /\ nav_trail' = Append(nav_trail, "down")
    /\ UNCHANGED <<pk_pc, status, result, filter, cursor_pos, input_position, pattern,
                   running, mode, snapshot, event, press, preview, frame, nav_start,
                   reparsed, append, runVars, setupVars, dedupVars, catalogVars, discoveryVars,
                   configVars, ansiVars, callVars>>

(***************************************************************************)
(* Specifications                                                          *)
(***************************************************************************)
\* none of the calls modelled on their own is running
CallsIdle == MergeIdle /\ MarksIdle /\ EditorIdle

InitDedup ==
    /\ dd_pc = "ready"
    /\ dd_in \in DedupInputs
    /\ dd_out = <<>>
    /\ CatalogIdle
    /\ DiscoveryIdle
    /\ PickerIdle
    /\ ConfigIdle
    /\ AnsiIdle
    /\ CallsIdle

NextDedup == Deduplicate

SpecDedup == InitDedup /\ [][NextDedup]_vars

InitCatalog ==
    /\ gc_pc = "run"
    /\ gc_sessions \in CatalogInputs
    /\ gc_todo = DOMAIN gc_sessions
    /\ gc_ret = <<>>
    /\ DedupIdle
    /\ DiscoveryIdle
    /\ PickerIdle
    /\ ConfigIdle
    /\ AnsiIdle
    /\ CallsIdle

NextCatalog == GenerateStep \/ GenerateReturn

SpecCatalog == InitCatalog /\ [][NextCatalog]_vars

\* canonical search roots, as Config::search_dirs returns them
SearchRoots ==
    {SearchDirectory(<<"/", n>>, d) : n \in EntryNames, d \in 0..MaxDepth}

\* lists of up to n roots, none equal to or inside another: every path is
\* then popped at most once, and choosing what the file system answers when
\* a path is popped is choosing a file system
RootLists(n) ==
    {l \in SeqsUpTo(SearchRoots, n) :
        l # <<>> /\ \A i, j \in 1..Len(l) : l[i].path = l[j].path => i = j}

InitDiscovery ==
    /\ sd_pc = "loop"
    /\ to_search \in RootLists(MaxRoots)
    /\ excluded_dirs \in {<<>>} \cup {<<L>> : L \in SUBSET Literals}
    /\ repos = <<>>
    /\ sd_last = <<>>
    /\ directories = to_search
    /\ DedupIdle
    /\ CatalogIdle
    /\ PickerIdle
    /\ ConfigIdle
    /\ AnsiIdle
    /\ CallsIdle

NextDiscovery ==
    \/ SearchExcluded
    \/ SearchRepo
    \/ SearchLeaf
    \/ SearchDescend
    \/ SearchDenied
    \/ SearchIoError
    \/ SearchReturn

SpecDiscovery == InitDiscovery /\ [][NextDiscovery]_vars


\* Picker::new, then run up to the first pass of main_loop: ratatui::init()
\* has put the terminal in raw mode on the alternate screen and the matcher
\* has the injected items to score
PickerNew(keymaps, chars, positions, previews) ==
    /\ pk_pc = "tick"
    /\ status = "Running"
    /\ result = None
    /\ filter = <<>>
    /\ cursor_pos = 0
    /\ selection = None
    /\ input_position \in positions
    /\ pattern = <<>>
    /\ running = TRUE
    /\ mode = "Rescore"
    /\ snapshot = <<>>
    /\ event = None
    /\ press = None
    /\ preview \in previews
    /\ frame = None
    /\ reparsed = FALSE
    /\ append = FALSE
    /\ keymap_arg \in keymaps
    /\ keymap = new_keymap(keymap_arg)
    /\ keyboard = chars
    /\ terminal = "raw"
    /\ run_ret = None
    /\ nav_start = None
    /\ nav_trail = <<>>
    /\ DedupIdle
    /\ CatalogIdle
    /\ DiscoveryIdle
    /\ ConfigIdle
    /\ AnsiIdle
    /\ CallsIdle

Init == PickerNew({Some(UserKeymap)}, Chars, {"Top", "Bottom"}, BOOLEAN)

Next ==
    \/ Tick
    \/ Draw
    \/ DrawFail
    \/ ReadFail
    \/ OtherEvent
    \/ KeyNotPress
    \/ KeyOther
    \/ KeyNoop
    \/ KeyCancel
    \/ KeyConfirm
    \/ KeyChar
    \/ KeyBackspace
    \/ KeyDelete
    \/ KeyDeleteWord
    \/ KeyDeleteToLineStart
    \/ KeyDeleteToLineEnd
    \/ KeyCursorLeft
    \/ KeyCursorRight
    \/ KeyMoveToLineStart
    \/ KeyMoveToLineEnd
    \/ KeyMoveUp
    \/ KeyMoveDown
    \/ RunRestore
    \/ RunReturn
    \/ PanicUnwind

Spec == Init /\ [][Next]_vars

\* the picker under each keymap a user can configure, below the prompt and
\* without a preview
InitKeys == PickerNew(UserKeymaps, Chars, {"Bottom"}, {FALSE})

SpecKeys == InitKeys /\ [][Next]_vars

\* the picker of a user who types such queries
InitQuery == PickerNew({Some(UserKeymap)}, QueryChars, {"Bottom"}, {FALSE})

SpecQuery == InitQuery /\ [][Next]_vars

\* the picker below the prompt and without a preview
InitLive == PickerNew({Some(UserKeymap)}, Chars, {"Bottom"}, {FALSE})

\* main_loop and run are sequential code: once a tick, a draw or the exit
\* path of run is due it is executed. event::read() blocks until the
\* terminal delivers an event, and nothing makes one arrive.
SpecLive ==
    /\ InitLive
    /\ [][Next]_vars
    /\ WF_vars(Tick)
    /\ WF_vars(Draw \/ DrawFail)
    /\ WF_vars(RunRestore)
    /\ WF_vars(RunReturn)
    /\ WF_vars(PanicUnwind)

\* a picker that has matched 1..Len(Items) items and selected one of them
InitNav ==
    /\ pk_pc = "nav"
    /\ status = "Running"
    /\ result = None
    /\ filter = <<>>
    /\ cursor_pos = 0
    /\ \E n \in 1..Len(Items) :
          /\ snapshot = SubSeq(Matches(<<>>), 1, n)
          /\ selection \in {Some(i) : i \in 0..(n - 1)}
    /\ input_position = "Bottom"
    /\ pattern = <<>>
    /\ running = FALSE
    /\ mode = "Unchanged"
    /\ event = None
    /\ press = None
    /\ preview = FALSE
    /\ frame = None
    /\ reparsed = FALSE
    /\ append = FALSE
    /\ keymap_arg = None
    /\ keymap = new_keymap(keymap_arg)
    /\ keyboard = Chars
    /\ terminal = "raw"
    /\ run_ret = None
    /\ nav_start = selection
    /\ nav_trail = <<>>
    /\ DedupIdle
    /\ CatalogIdle
    /\ DiscoveryIdle
    /\ ConfigIdle
    /\ AnsiIdle
    /\ CallsIdle

NextNav == NavUp \/ NavDown

SpecNav == InitNav /\ [][NextNav]_vars

InitConfig ==
    /\ cfg_pc = "ready"
    /\ cfg_in \in ConfigInputs
    /\ cfg_out = None
    /\ DedupIdle
    /\ CatalogIdle
    /\ DiscoveryIdle
    /\ PickerIdle
    /\ AnsiIdle
    /\ CallsIdle

NextConfig == ConfigSearchDirs

SpecConfig == InitConfig /\ [][NextConfig]_vars

InitAnsi ==
    /\ st_pc = "ready"
    /\ st_in \in AnsiInputs
    /\ st_out = <<>>
    /\ DedupIdle
    /\ CatalogIdle
    /\ DiscoveryIdle
    /\ PickerIdle
    /\ ConfigIdle
    /\ CallsIdle

NextAnsi == StrToText

SpecAnsi == InitAnsi /\ [][NextAnsi]_vars

InitMerge ==
    /\ mg_pc = "s1"
    /\ mg_in \in [s1 : MergeMaps, s2 : MergeMaps]
    /\ mg_s1 = mg_in.s1
    /\ mg_s2 = mg_in.s2
    /\ mg_ret = <<>>
    /\ DedupIdle
    /\ CatalogIdle
    /\ DiscoveryIdle
    /\ PickerIdle
    /\ ConfigIdle
    /\ AnsiIdle
    /\ MarksIdle
    /\ EditorIdle

NextMerge == MergeDrainFirst \/ MergeFirstDone \/ MergeDrainSecond \/ MergeReturn

SpecMerge == InitMerge /\ [][NextMerge]_vars

InitMarks ==
    /\ mk_pc = "ready"
    /\ mk_in \in MarksInputs
    /\ mk_marks = mk_in.marks
    /\ mk_index = None
    /\ mk_out = None
    /\ DedupIdle
    /\ CatalogIdle
    /\ DiscoveryIdle
    /\ PickerIdle
    /\ ConfigIdle
    /\ AnsiIdle
    /\ MergeIdle
    /\ EditorIdle

NextMarks == MarksSet \/ MarksSetSaveFailed

SpecMarks == InitMarks /\ [][NextMarks]_vars

InitWord ==
    /\ ed_pc = "ready"
    /\ ed_in \in EditorInputs(WordChars)
    /\ ed_out = <<>>
    /\ DedupIdle
    /\ CatalogIdle
    /\ DiscoveryIdle
    /\ PickerIdle
    /\ ConfigIdle
    /\ AnsiIdle
    /\ MergeIdle
    /\ MarksIdle

NextWord == WordDelete

SpecWord == InitWord /\ [][NextWord]_vars

InitReparse ==
    /\ ed_pc = "ready"
    /\ ed_in \in EditorInputs(QueryChars)
    /\ ed_out = <<>>
    /\ DedupIdle
    /\ CatalogIdle
    /\ DiscoveryIdle
    /\ PickerIdle
    /\ ConfigIdle
    /\ AnsiIdle
    /\ MergeIdle
    /\ MarksIdle

NextReparse ==
    \/ ReparseUpdateFilter
    \/ ReparseRemoveFilter
    \/ ReparseDelete
    \/ ReparseDeleteWord
    \/ ReparseDeleteToLine

SpecReparse == InitReparse /\ [][NextReparse]_vars

(***************************************************************************)
(* Properties of the resolver and the catalog                              *)
(***************************************************************************)
RECURSIVE JoinSlash(_)
JoinSlash(s) == IF Len(s) = 1 THEN s[1] ELSE s[1] \o "/" \o JoinSlash(Tail(s))

Suffix(path, k) == SubSeq(path, Len(path) - k + 1, Len(path))

DistinctPaths(list) ==
    \A i, j \in 1..Len(list) : list[i].path = list[j].path => i = j

SameBasename(list) ==
    \A i, j \in 1..Len(list) : Nth(list[i].path, 0) = Nth(list[j].path, 0)

\* the label the resolver gave to the candidate with this path
LabelsOf(out) == {<<out[i].path, out[i].name>> : i \in 1..Len(out)}

\* C2: N candidates that share a basename and have pairwise distinct paths
\* come back as N candidates with pairwise distinct labels, each label the
\* '/'-join of trailing components of the candidate's own path.
C2_DedupUnique ==
    (dd_pc = "done" /\ SameBasename(dd_in) /\ DistinctPaths(dd_in)) =>
        /\ Len(dd_out) = Len(dd_in)
        /\ {dd_out[i].path : i \in 1..Len(dd_out)} = {dd_in[i].path : i \in 1..Len(dd_in)}
        /\ \A i, j \in 1..Len(dd_out) : dd_out[i].name = dd_out[j].name => i = j
        /\ \A i \in 1..Len(dd_out) :
              \E k \in 1..Len(dd_out[i].path) :
                 dd_out[i].name = JoinSlash(Suffix(dd_out[i].path, k))

\* three distinct candidates, two of which needed more than the parent
\* directory to be told apart
C2_Witness ==
    /\ dd_pc = "done"
    /\ Len(dd_in) = 3
    /\ DistinctPaths(dd_in)
    /\ \E i, j \in 1..3 : i # j /\ Suffix(dd_in[i].path, 2) = Suffix(dd_in[j].path, 2)
    /\ \E i \in 1..3 : Len(dd_in[i].path) > 3

C3Case == dd_pc = "done" /\ dd_in \in Perms(C3Group)

C3Labels(last) ==
    { << <<"/", "a", "b", "proj">>, "b/proj" >>,
      << <<"/", "a", "c", "proj">>, "c/proj" >>,
      << <<"/", "x", "y", "z", "proj">>, last >> }

\* C3 as stated: /a/b/proj, /a/c/proj, /x/y/z/proj get the labels b/proj,
\* c/proj and y/z/proj.
C3_Original == C3Case => LabelsOf(dd_out) = C3Labels("y/z/proj")

\* C3 amended: /a/b/proj, /a/c/proj, /x/y/z/proj get the labels b/proj,
\* c/proj and z/proj (no parent directory repeats, so the group depth is 1).
C3_DedupConcrete == C3Case => LabelsOf(dd_out) = C3Labels("z/proj")

C3_Witness == C3Case /\ dd_in = C3Group /\ Len(dd_out) = 3

\* the probe depth of the i-th input candidate: it is popped when the
\* candidates before it are still in the vector
OwnDepth(list, i) == ProbeDepth(list[i].path, SubSeq(list, 1, i - 1), 1)

RECURSIVE MaxOver(_, _, _)
MaxOver(list, i, m) ==
    IF i > Len(list) THEN m ELSE MaxOver(list, i + 1, Max(m, OwnDepth(list, i)))

GroupMaxDepth(list) == MaxOver(list, 1, 1)

\* C4: every candidate of the group is labelled with the last maxDepth+1
\* components of its own path (all of them when the path is shorter), joined
\* by '/', maxDepth being the largest probe depth of the group; the labels
\* have the same number of segments when every path is long enough; the
\* candidates come back in reverse input order, as the unit test asserts.
C4_DedupSecondPass ==
    dd_pc = "done" =>
        LET d == GroupMaxDepth(dd_in)
            n == Len(dd_in)
        IN  /\ Len(dd_out) = n
            /\ \A i \in 1..n :
                  /\ dd_out[i].path = dd_in[n + 1 - i].path
                  /\ dd_out[i].name =
                        JoinSlash(Suffix(dd_out[i].path, Min(d + 1, Len(dd_out[i].path))))
            /\ dd_in = TestGroup =>
                  /\ dd_out[1].name = "projects/proj2/test"
                  /\ dd_out[2].name = "to/proj2/test"
                  /\ dd_out[3].name = "to/proj1/test"

\* a group in which one candidate needs depth 2 and another only depth 1
C4_Witness ==
    /\ dd_pc = "done"
    /\ Len(dd_in) = 3
    /\ GroupMaxDepth(dd_in) = 2
    /\ \A i \in 1..3 : Len(dd_in[i].path) > 3
    /\ \E i \in 1..3 : OwnDepth(dd_in, i) = 1
    /\ \A i \in 1..3 : dd_out[i].name = JoinSlash(Suffix(dd_out[i].path, 3))

\* C5 as stated: the label of each candidate is the same for every
\* permutation of the input list.
C5_OrderIndependent ==
    (dd_pc = "done" /\ DistinctPaths(dd_in)) =>
        \A perm \in Perms(dd_in) :
            LabelsOf(deduplicate_sessions(perm)) = LabelsOf(dd_out)

TotalSessions(sessions) ==
    LET RECURSIVE Sum(_)
        Sum(K) == IF K = {} THEN 0
                  ELSE LET k == CHOOSE x \in K : TRUE
                       IN  Len(sessions[k]) + Sum(K \ {k})
    IN  Sum(DOMAIN sessions)

\* C6 as stated: whatever the input multimap, the container has one entry
\* per input candidate: none is dropped or overwritten.
C6_NothingDropped ==
    gc_pc = "done" =>
        /\ Cardinality(DOMAIN gc_ret) = TotalSessions(gc_sessions)
        /\ \A k \in DOMAIN gc_sessions : \A i \in 1..Len(gc_sessions[k]) :
              \E name \in DOMAIN gc_ret : gc_ret[name].path = gc_sessions[k][i].path

\* the string contains the literal somewhere
ContainsLiteral(str, lit) ==
    \E i \in 0..Len(str) : \E j \in i..Len(str) : SubSeq(str, i + 1, j) = lit

HasExcludedLiteral(path) ==
    /\ excluded_dirs # <<>>
    /\ \E lit \in excluded_dirs[1] : ContainsLiteral(PathString(path), lit)

\* C7: a queue item whose path string contains a configured exclusion
\* literal is not probed as a repository, not emitted as a candidate, and
\* none of its children is enqueued; no candidate in the result and no item
\* in the queue lies below such a path.
C7_ExclusionContainment ==
    /\ sd_last # <<>> /\ HasExcludedLiteral(sd_last[1].path) =>
          /\ ~sd_last[1].probed
          /\ ~sd_last[1].emitted
          /\ sd_last[1].children = {}
    /\ \A k \in DOMAIN repos : \A i \in 1..Len(repos[k]) :
          ~HasExcludedLiteral(repos[k][i].path)
    /\ \A i \in 1..Len(to_search) :
          \A n \in 2..(Len(to_search[i].path) - 1) :
             ~HasExcludedLiteral(SubSeq(to_search[i].path, 1, n))

\* a descendant (not a root) that contains a literal inside a longer
\* component has just been skipped while other candidates were emitted
C7_Witness ==
    /\ sd_last # <<>>
    /\ Len(sd_last[1].path) > 2
    /\ HasExcludedLiteral(sd_last[1].path)
    /\ ~HasExcludedLiteral(SubSeq(sd_last[1].path, 1, Len(sd_last[1].path) - 1))
    /\ repos # <<>>

(***************************************************************************)
(* Properties of the picker                                                *)
(***************************************************************************)
\* the selection is an index of the snapshot
ItemSelected == selection # None /\ selection[1] \in 0..(Len(snapshot) - 1)

\* C1 as stated: after the reconciliation of a tick the selection is none
\* iff nothing is matched, and otherwise an index below the matched count.
C1_SelectionInvariant ==
    pk_pc = "draw" =>
        /\ (selection = None) <=> (Len(snapshot) = 0)
        /\ selection # None => selection[1] \in 0..(Len(snapshot) - 1)

\* C8 as stated: the picker starts Running; it ends only by Cancel (no
\* result) or by Confirm with an item selected (that item's label); Confirm
\* with nothing selected changes neither filter, cursor nor selection; no
\* other dispatched event ends the loop.
C8_PickerStateMachine ==
    /\ pk_pc # "idle" => status = "Running"
    /\ [][pk_pc = "read" /\ event' # Some("ReadError") =>
            /\ event' = Some("Cancel") => status' = "Cancelled" /\ result' = None
            /\ (event' = Some("Confirm") /\ ItemSelected) =>
                   /\ status' = "Confirmed"
                   /\ result' = Some(Items[snapshot[selection[1] + 1]])
            /\ (event' = Some("Confirm") /\ ~ItemSelected) =>
                   /\ status' = "Running"
                   /\ UNCHANGED <<filter, cursor_pos, selection>>
            /\ event' \notin {Some("Cancel"), Some("Confirm")} => status' = "Running"
       ]_vars

\* n copies of x
Repeat(x, n) == [i \in 1..n |-> x]

\* C9: from the last index do_move_up selects 0, from 0 do_move_down selects
\* the last index, and N moves one way followed by N moves the other way
\* end on the original index, for every N below the matched count.
C9_NavigationInverse ==
    pk_pc = "nav" =>
        LET count == Len(snapshot) IN
        /\ (nav_trail = <<"up">> /\ nav_start = Some(count - 1)) => selection = Some(0)
        /\ (nav_trail = <<"down">> /\ nav_start = Some(0)) => selection = Some(count - 1)
        /\ \A n \in 0..(count - 1) :
              (\/ nav_trail = Repeat("up", n) \o Repeat("down", n)
               \/ nav_trail = Repeat("down", n) \o Repeat("up", n))
                  => selection = nav_start

\* three moves up that passed the last index, then three moves down again
C9_Witness ==
    /\ pk_pc = "nav"
    /\ Len(snapshot) = 4
    /\ nav_start = Some(2)
    /\ nav_trail = Repeat("up", 3) \o Repeat("down", 3)
    /\ selection = Some(2)

\* the row of the list area, counted downwards, on which item i is drawn
\* (the list is not scrolled)
RowOf(direction, i, height) ==
    IF direction = "TopToBottom" THEN i ELSE height - 1 - i

\* C10 as stated: whatever the input position and the terminal size, MoveUp
\* moves the highlight to the row above the highlighted one in the list as
\* it was drawn and MoveDown to the row below it, wrap at the ends aside.
C10_NavigationDirection ==
    [][(pk_pc = "read" /\ ItemSelected /\ event' \in {Some("MoveUp"), Some("MoveDown")}) =>
          LET direction == frame[1].list_direction
              height == Len(snapshot)
              row == RowOf(direction, selection[1], height)
              target == IF event' = Some("MoveUp") THEN row - 1 ELSE row + 1
          IN  target \in 0..(height - 1) =>
                 /\ selection' # None
                 /\ RowOf(direction, selection'[1], height) = target
      ]_vars

EditEvents == {Some("Char"), Some("Backspace"), Some("Delete"), Some("DeleteWord"),
               Some("DeleteToLineStart"), Some("DeleteToLineEnd")}

CursorEvents == {Some("CursorLeft"), Some("CursorRight"), Some("MoveToLineStart"),
                 Some("MoveToLineEnd")}

NavEvents == {Some("MoveUp"), Some("MoveDown")}

C12_TerminalRelease ==
    /\ pk_pc \in {"tick", "draw", "read"} => terminal = "raw"
    /\ pk_pc \in {"restored", "returned"} => terminal = "restored"
    /\ run_ret # None => terminal = "restored"
    /\ pk_pc = "returned" =>
          /\ status \in {"Confirmed", "Cancelled", "Failed"}
          /\ run_ret = Some(IF status = "Failed" THEN Err("TuiError") ELSE Ok(result))

\* run has returned the error of a failed event::read
C12_Witness ==
    /\ pk_pc = "returned"
    /\ status = "Failed"
    /\ event = Some("ReadError")
    /\ terminal = "restored"
    /\ run_ret = Some(Err("TuiError"))

C17_Original ==
    (frame # None /\ preview) =>
        LET f == frame[1] IN
        /\ f.split = "Horizontal" <=> (f.area[1] >= 2 * f.area[2])
        /\ f.split # "Horizontal" => (f.split = "Vertical" /\ f.input_position = "Bottom")

\* C17, amended: with a preview the frame is split horizontally exactly
\* when half the width, rounded up, is at least the height, with the input
\* line where it is configured; otherwise vertically with the input line at
\* the bottom whatever position is configured.
C17_LayoutChoice ==
    (frame # None /\ preview) =>
        LET f == frame[1]
            half_up == (f.area[1] \div 2) + (f.area[1] % 2)
        IN  /\ f.split = "Horizontal" <=> (half_up >= f.area[2])
            /\ f.split = "Horizontal" => f.input_position = input_position
            /\ f.split # "Horizontal" =>
                   (f.split = "Vertical" /\ f.input_position = "Bottom")

\* an odd width whose half rounds up to the height: split horizontally
C17_Witness ==
    /\ frame # None
    /\ preview
    /\ frame[1].area = <<81, 41>>
    /\ frame[1].split = "Horizontal"

(***************************************************************************)
(* Properties of the discovery traversal                                   *)
(***************************************************************************)
IsPrefix(p, q) == Len(p) <= Len(q) /\ SubSeq(q, 1, Len(p)) = p

\* the item descends from a configured root and has used up as many levels
\* of that root's depth as it lies below it
WithinRoot(path, depth) ==
    \E i \in 1..Len(directories) :
        LET root == directories[i] IN
        /\ IsPrefix(root.path, path)
        /\ depth >= 0
        /\ Len(path) - Len(root.path) = root.depth - depth

\* the path lies inside a directory that was emitted as a repository
InsideRepo(path) ==
    \E k \in DOMAIN repos : \E i \in 1..Len(repos[k]) :
        LET r == repos[k][i].path IN IsPrefix(r, path) /\ r # path

\* the entries enqueued by the last iteration, as they stand at the back of
\* the queue
EnqueuedLast ==
    LET n == Cardinality(sd_last[1].children)
    IN  IF n > Len(to_search) THEN {<<"missing">>}
        ELSE {to_search[i] : i \in (Len(to_search) - n + 1)..Len(to_search)}

find_repos ==
    IF sd_pc = "ok" THEN Some(Ok(repos))
    ELSE IF sd_pc = "err" THEN Some(Err("IoError"))
    ELSE None

\* C19: a permission-denied read_dir drops only the item it was tried on:
\* the loop goes on with the rest of the queue and the candidates found so
\* far; any other read_dir error ends discovery, which returns IoError and
\* no catalog; an item that does not open as a repository is no error.
C19_ErrorHandling ==
    /\ [][(sd_pc = "loop" /\ to_search # <<>>) =>
             LET l == sd_last'[1] IN
             /\ l.read = "denied" =>
                    /\ sd_pc' = "loop"
                    /\ to_search' = Tail(to_search)
                    /\ repos' = repos
             /\ l.read = "error" => sd_pc' = "err"
             /\ (~l.repo /\ l.read # "error") => sd_pc' = "loop"
       ]_vars
    /\ [](sd_pc = "err" => find_repos = Some(Err("IoError")))
    /\ [](sd_pc = "ok" => (to_search = <<>> /\ find_repos = Some(Ok(repos))))

\* a root could not be read for lack of permission, and the entries of the
\* root before it are still waiting in the queue
C19_Witness ==
    /\ sd_pc = "loop"
    /\ sd_last # <<>>
    /\ sd_last[1].read = "denied"
    /\ to_search # <<>>
    /\ \A i \in 1..Len(to_search) : ~IsPrefix(sd_last[1].path, to_search[i].path)

(***************************************************************************)
(* Properties of Config::search_dirs                                       *)
(***************************************************************************)
\* the configured entries that name an existing directory, in the order of
\* the config, legacy entries last and with depth 10
ResolvableRoots(config) ==
    LET dirs == IF config.search_dirs = None THEN <<>> ELSE config.search_dirs[1]
        paths == IF config.search_paths = None THEN <<>> ELSE config.search_paths[1]
        ok_dirs == SelectSeq(dirs, LAMBDA d : Resolve(d.path, config.existing) # None)
        ok_paths == SelectSeq(paths, LAMBDA q : Resolve(q, config.existing) # None)
    IN  [i \in 1..Len(ok_dirs) |->
            SearchDirectory(Resolve(ok_dirs[i].path, config.existing)[1], ok_dirs[i].depth)]
        \o [i \in 1..Len(ok_paths) |->
            SearchDirectory(Resolve(ok_paths[i], config.existing)[1], 10)]

NothingConfigured(config) ==
    /\ config.search_dirs = None \/ Len(config.search_dirs[1]) = 0
    /\ config.search_paths = None \/ Len(config.search_paths[1]) = 0

\* C20: Config::search_dirs fails with NoDefaultSearchPath ("No default
\* search path was found") exactly when neither search_dirs nor search_paths
\* has an entry, with NoValidSearchPath exactly when there are entries and
\* none resolves, and otherwise returns the non-empty list of the resolvable
\* entries, legacy ones with depth 10.
C20_SearchRootValidation ==
    cfg_pc = "done" =>
        LET out == cfg_out[1]
            roots == ResolvableRoots(cfg_in)
        IN  /\ out = Err("NoDefaultSearchPath") <=> NothingConfigured(cfg_in)
            /\ out = Err("NoValidSearchPath") <=>
                   (~NothingConfigured(cfg_in) /\ roots = <<>>)
            /\ out.ok <=> (~NothingConfigured(cfg_in) /\ roots # <<>>)
            /\ out.ok => (out.value # <<>> /\ out.value = roots)
            /\ ~out.ok => out.value \in {"NoDefaultSearchPath", "NoValidSearchPath"}
            /\ out = Err("NoDefaultSearchPath") =>
                   ConfigErrorDisplay(out.value) = "No default search path was found"

\* one entry of each kind resolves, a third one does not: the link comes
\* back as its target with its own depth, the legacy entry with depth 10
C20_Witness ==
    /\ cfg_pc = "done"
    /\ cfg_in.search_dirs = Some(<<SearchDirectory("$X/c", 2), SearchDirectory("/l", 0)>>)
    /\ cfg_in.search_paths = Some(<<"~/a">>)
    /\ cfg_out = Some(Ok(<<SearchDirectory("/b", 0), SearchDirectory("/home/a", 10)>>))

(***************************************************************************)
(* Properties of str_to_text                                               *)
(***************************************************************************)
SgrDigits == Range(DigitChars)

\* the index of the "m" that ends the SGR sequence ESC [ digits m starting
\* at index i of the line, or 0 if no such sequence starts there
SgrEnd(l, i) ==
    IF i + 1 <= Len(l) /\ l[i] = "ESC" /\ l[i + 1] = "["
       /\ \E k \in (i + 2)..Len(l) :
              l[k] = "m" /\ \A j \in (i + 2)..(k - 1) : l[j] \in SgrDigits
    THEN CHOOSE k \in (i + 2)..Len(l) :
             l[k] = "m" /\ \A j \in (i + 2)..(k - 1) : l[j] \in SgrDigits
    ELSE 0

\* from index i on, every ESC of the line starts an SGR sequence
RECURSIVE WellFormedFrom(_, _)
WellFormedFrom(l, i) ==
    IF i > Len(l) THEN TRUE
    ELSE IF l[i] = "ESC"
         THEN SgrEnd(l, i) # 0 /\ WellFormedFrom(l, SgrEnd(l, i) + 1)
    ELSE WellFormedFrom(l, i + 1)

WellFormed(l) == WellFormedFrom(l, 1)

\* the runs a well-formed line is made of: the maximal stretches of text
\* between SGR sequences, each under the style the sequences before it
\* leave, and the style at the end of the line
RECURSIVE RefRuns(_, _, _, _)
RefRuns(l, i, cur, style) ==
    LET closed == IF cur = <<>> THEN <<>> ELSE <<Span(cur, style)>> IN
    IF i > Len(l) THEN [runs |-> closed, style |-> style]
    ELSE IF l[i] = "ESC"
         THEN LET k == SgrEnd(l, i)
                  rest == RefRuns(l, k + 1, <<>>, ApplySgr(style, SubSeq(l, i + 2, k - 1)))
              IN  [runs |-> closed \o rest.runs, style |-> rest.style]
    ELSE RefRuns(l, i + 1, Append(cur, l[i]), style)

RECURSIVE RefText(_, _)
RefText(lines, style) ==
    IF lines = <<>> THEN <<>>
    ELSE LET first == RefRuns(Head(lines), 1, <<>>, style)
         IN  <<first.runs>> \o RefText(Tail(lines), first.style)

\* the contents of a list of spans, one after the other
RECURSIVE Contents(_)
Contents(spans) ==
    IF spans = <<>> THEN <<>> ELSE Head(spans).content \o Contents(Tail(spans))

\* the visible chars of a well-formed line
Visible(l) == Contents(RefRuns(l, 1, <<>>, DefaultStyle).runs)

RECURSIVE Flatten(_)
Flatten(seqs) == IF seqs = <<>> THEN <<>> ELSE Head(seqs) \o Flatten(Tail(seqs))

AllWellFormed(s) == \A j \in 1..Len(Lines(s)) : WellFormed(Lines(s)[j])

\* max is wider than the visible text of every line
WideEnough(s, max) ==
    \A j \in 1..Len(Lines(s)) : Len(Lines(s)[j]) < max

\* C14 as stated: whatever the width, every visible char of the input
\* appears in the output exactly once and in order - what does not fit on an
\* output line continues on a new one - and no output line is wider than
\* max.
C14_HardWrap ==
    (st_pc = "done" /\ AllWellFormed(st_in.s)) =>
        /\ Flatten([j \in 1..Len(st_out) |-> Contents(st_out[j])])
              = Flatten([j \in 1..Len(Lines(st_in.s)) |-> Visible(Lines(st_in.s)[j])])
        /\ \A j \in 1..Len(st_out) : LineWidth(st_out[j], st_in.ctrl_width) <= st_in.max

\* C15: "ESC[31mred ESC[0m plain" gives one line of two runs, "red" with
\* foreground red and " plain" with the reset style; in a text whose escape
\* sequences are SGR sequences, on a pane wide enough, each sequence ends
\* the run before it and the text after it is a run under the updated
\* style, and no run holds an escape char.
C15_StyledRuns ==
    st_pc = "done" =>
        /\ (st_in.s = RedPlain /\ st_in.max = 80) =>
               st_out = << << Span(<<"r", "e", "d">>, [DefaultStyle EXCEPT !.fg = "Red"]),
                             Span(<<" ", "p", "l", "a", "i", "n">>, ResetStyle) >> >>
        /\ (AllWellFormed(st_in.s) /\ WideEnough(st_in.s, st_in.max)) =>
               /\ st_out = RefText(Lines(st_in.s), DefaultStyle)
               /\ \A j \in 1..Len(st_out) : \A k \in 1..Len(st_out[j]) :
                      /\ st_out[j][k].content # <<>>
                      /\ \A n \in 1..Len(st_out[j][k].content) :
                             st_out[j][k].content[n] # "ESC"

\* text, an SGR sequence, text: two runs, the second one under the reset
\* style
C15_Witness ==
    /\ st_pc = "done"
    /\ st_in.s = <<"x", "ESC", "[", "m", "x">>
    /\ st_in.max = 80
    /\ st_out = << << Span(<<"x">>, DefaultStyle), Span(<<"x">>, ResetStyle) >> >>

\* C16 as stated: str_to_text returns one line per input line, and a line
\* that ends inside an escape sequence leaves the other lines alone: the
\* runs of every line whose own escape sequences are complete hold exactly
\* that line's visible chars.
C16_MalformedInput ==
    (st_pc = "done" /\ WideEnough(st_in.s, st_in.max)) =>
        /\ Len(st_out) = Len(Lines(st_in.s))
        /\ \A j \in 1..Len(st_out) :
              WellFormed(Lines(st_in.s)[j]) =>
                  Contents(st_out[j]) = Visible(Lines(st_in.s)[j])

(***************************************************************************)
(* Properties of merge_session_maps                                        *)
(***************************************************************************)
\* the sessions a map files under a key: none when it has no such key
SessionsUnder(map, key) == IF key \in DOMAIN map THEN map[key] ELSE <<>>

\* C22: for any two maps s1 and s2, the keys of the map merge_session_maps
\* returns are the keys of s1 together with the keys of s2, and the list
\* under each key is s1's list for that key followed by s2's list for that
\* key, so that no session is dropped or duplicated; two empty maps merge
\* into an empty map.
C22_MergeSessionMaps ==
    mg_pc = "done" =>
        /\ DOMAIN mg_ret = DOMAIN mg_in.s1 \cup DOMAIN mg_in.s2
        /\ \A key \in DOMAIN mg_ret :
              mg_ret[key] = SessionsUnder(mg_in.s1, key) \o SessionsUnder(mg_in.s2, key)
        /\ (DOMAIN mg_in.s1 = {} /\ DOMAIN mg_in.s2 = {}) => DOMAIN mg_ret = {}

\* both maps hold two sessions under "key1", only the second has "key2"
C22_Witness ==
    /\ mg_pc = "done"
    /\ DOMAIN mg_in.s1 = {"key1"}
    /\ DOMAIN mg_in.s2 = {"key1", "key2"}
    /\ Len(mg_in.s1["key1"]) = 2
    /\ Len(mg_in.s2["key1"]) = 2
    /\ mg_in.s1["key1"] # mg_in.s2["key1"]
    /\ Len(mg_ret["key1"]) = 4
    /\ mg_ret["key2"] = mg_in.s2["key2"]

(***************************************************************************)
(* Properties of marks set                                                 *)
(***************************************************************************)
\* the marks of the config file before the call
MarksBefore == IF mk_in.marks = None THEN <<>> ELSE mk_in.marks[1]

\* marks set was called without an index and has stored the mark
SetWithoutIndex ==
    mk_pc = "done" /\ mk_in.index = None /\ mk_out = Some(Ok("()"))

\* C23: when marks set is called with no index, the new mark is stored at an
\* index after the last existing mark: whatever marks there were before
\* (gaps in the indices and marks whose path no longer resolves included),
\* no existing mark is overwritten and every previous index -> path entry is
\* unchanged.
C23_MarksAppend ==
    SetWithoutIndex =>
        /\ \A key \in DOMAIN MarksBefore :
              parse_usize(key) # None => parse_usize(key)[1] < mk_index[1]
        /\ to_string(mk_index[1]) \notin DOMAIN MarksBefore
        /\ \A key \in DOMAIN MarksBefore : mk_marks[1][key] = MarksBefore[key]

(***************************************************************************)
(* Properties of the SGR parameters                                        *)
(***************************************************************************)
\* the parameters the match of str_to_text has no arm for and that are no
\* colour sequence either
Unrecognised ==
    SgrParams \ ({0, 1, 3, 4, 5, 6, 7, 9, 22, 23, 24, 25, 27, 29, 38, 39, 48, 49, 58, 59}
                 \cup 30..37 \cup 40..47 \cup 90..97 \cup 100..107)

\* the style the parameter n is to leave
SgrExpected(style, n) ==
    IF n \in 30..37 THEN [style EXCEPT !.fg = StandardColors[n - 29]]
    ELSE IF n \in 90..97 THEN [style EXCEPT !.fg = BrightColors[n - 89]]
    ELSE IF n \in 40..47 THEN [style EXCEPT !.bg = StandardColors[n - 39]]
    ELSE IF n \in 100..107 THEN [style EXCEPT !.bg = BrightColors[n - 99]]
    ELSE style

\* C24: in str_to_text the parameters 30-37 and 90-97 change only the
\* foreground colour (standard and bright), the parameters 40-47 and 100-107
\* change only the background colour (standard and bright), and a parameter
\* that is not recognised leaves the whole style unchanged: the text after
\* the sequence has the style of the text before it but for that colour.
C24_SgrColours ==
    (st_pc = "done" /\ st_in.s \in SgrPairs) =>
        LET n == CHOOSE k \in SgrParams :
                     \E first \in SeqsUpTo(SgrDigits, 2) :
                         st_in.s = SgrPair(first, to_string(k))
        IN  n \in 30..37 \cup 40..47 \cup 90..97 \cup 100..107 \cup Unrecognised =>
                /\ Len(st_out) = 1
                /\ Len(st_out[1]) = 2
                /\ st_out[1][1].content = <<"y">>
                /\ st_out[1][2].content = <<"x">>
                /\ st_out[1][2].style = SgrExpected(st_out[1][1].style, n)

(***************************************************************************)
(* Properties of delete_word                                               *)
(***************************************************************************)
\* the length of the longest run of spaces (or of other chars) that ends
\* right before index `end` of str
RunBefore(str, end, spaces) ==
    CHOOSE n \in 0..end :
        /\ \A i \in (end - n + 1)..end : (str[i] = " ") = spaces
        /\ n = end \/ (str[end - n] = " ") # spaces

\* C25: for every ASCII filter and cursor position delete_word removes the
\* longest run of spaces right before the cursor together with the longest
\* run of other chars right before that run, keeps the text before the
\* removed range and the text after the cursor, and puts the cursor at the
\* start of the removed range; at cursor 0 it changes nothing.
C25_DeleteWord ==
    ed_pc = "done" =>
        LET str == ed_in.filter
            cur == ed_in.cursor_pos
            blanks == RunBefore(str, cur, TRUE)
            word == RunBefore(str, cur - blanks, FALSE)
            start == cur - blanks - word
        IN  /\ ~ed_out.panic
            /\ ed_out.filter = SubSeq(str, 1, start) \o SubSeq(str, cur + 1, Len(str))
            /\ ed_out.cursor_pos = start
            /\ cur = 0 => ed_out.filter = str /\ ed_out.cursor_pos = 0

\* "a b" with the cursor after the space: the space and the "a" before it go
C25_Witness ==
    /\ ed_pc = "done"
    /\ ed_in = [filter |-> <<"a", " ", "b">>, cursor_pos |-> 2]
    /\ ed_out.filter = <<"b">>
    /\ ed_out.cursor_pos = 0

(***************************************************************************)
(* Properties of the key dispatch                                          *)
(***************************************************************************)
\* the keymap is the defaults with each entry of the user's keymap in place
\* of the default binding of its key
KeymapLayered ==
    \A k \in KeyEvents(keyboard) \cup DOMAIN default_keymap :
        get(keymap, k) =
            IF keymap_arg # None /\ k \in DOMAIN keymap_arg[1] THEN Some(keymap_arg[1][k])
            ELSE IF k \in DOMAIN default_keymap THEN Some(default_keymap[k])
            ELSE None

\* what an event that reaches no handler leaves as it is
PickerData ==
    <<status, result, filter, cursor_pos, selection, input_position, pattern, running,
      snapshot, frame, preview, keymap>>

\* the text with the char put in front of its cursor_pos-th char
InsertedAt(str, cur, c) == SubSeq(str, 1, cur) \o <<c>> \o SubSeq(str, cur + 1, Len(str))

\* what main_loop does with the event it has read
KeyDispatched ==
    pk_pc = "read" /\ event' # None /\ event' # Some("ReadError") =>
        IF press' = None
        THEN event' \in {Some("NotKey"), Some("NotPress")} /\ UNCHANGED PickerData
        ELSE LET k == press'[1]
                 bound == get(keymap, k)
             IN  IF bound # None
                 THEN /\ event' = bound
                      /\ Len(filter') <= Len(filter)
                      /\ bound = Some("Noop") => UNCHANGED PickerData
                 ELSE IF k.code[1] = "Char"
                 THEN /\ cursor_pos <= Len(filter)
                      /\ filter' = InsertedAt(filter, cursor_pos, k.code[2])
                      /\ cursor_pos' = cursor_pos + 1
                 ELSE UNCHANGED PickerData

\* C26: the keymap is the default keymap with every override of the user in
\* place of the binding of its key; a press whose (code, modifiers) is bound
\* runs the bound action and inserts no text, Noop included; a press that is
\* not bound inserts its char at the cursor when its code is a char and
\* changes nothing otherwise; an event that is not a key press changes no
\* state of the picker.
C26_KeyDispatch == []KeymapLayered /\ [][KeyDispatched]_vars

(***************************************************************************)
(* Properties of the append hint                                           *)
(***************************************************************************)
\* the items the pattern matches
MatchedBy(pat) == {i \in 1..Len(Items) : Matched(pat, Items[i])}

\* every reparse passes the hint exactly when the previous filter is a
\* prefix of the new one, and never after a deletion
HintIsPrefix ==
    (ed_pc = "done" /\ ed_out.edit.reparse) =>
        /\ ed_out.append <=> StartsWith(ed_out.edit.filter, ed_in.filter)
        /\ Len(ed_out.edit.filter) < Len(ed_in.filter) => ~ed_out.append

\* a pattern that is one negated atom
Negated(pat) == Len(pat) > 1 /\ Head(pat) = "!"

AllItems == [i \in 1..Len(Items) |-> i]

NoUppercase(str) == \A i \in 1..Len(str) : str[i] # "A"

\* the query compared char by char with a text: a subsequence of it, or,
\* negated, not a part of it
Hits(query, text) ==
    IF Head(query) = "!"
    THEN Len(query) = 1 \/ ~IsSubstr(Tail(query), text)
    ELSE IsSubseq(query, text)

C28_CharBoundaries ==
    [][(pk_pc = "read" /\ event' \in EditEvents) =>
            /\ IsCharBoundary(filter, cursor_pos)
            /\ status' # "Panicked"
            /\ event' = Some("Char") =>
                   /\ cursor_pos' = cursor_pos + 1
                   /\ StrLen(filter') = StrLen(filter) + ByteLen(press'[1].code[2])
      ]_vars

(***************************************************************************)
(* Properties of Confirm                                                   *)
(***************************************************************************)
\* the frame on the screen was drawn from the snapshot and the selection
\* the picker has now
FrameCurrent ==
    /\ frame # None
    /\ frame[1].list = [i \in 1..Len(snapshot) |-> Items[snapshot[i]]]
    /\ frame[1].highlighted =
           IF selection # None /\ selection[1] < Len(snapshot)
           THEN Some(Items[snapshot[selection[1] + 1]])
           ELSE None

\* C29: an event is read only with the frame of the current snapshot and
\* selection on the screen, no tick, edit or selection change in between;
\* when the picker ends Confirmed the label it returns is the one that
\* frame shows highlighted.
C29_ConfirmShown ==
    /\ pk_pc = "read" => FrameCurrent
    /\ status = "Confirmed" =>
           /\ FrameCurrent
           /\ result # None
           /\ result = frame[1].highlighted

\* with "a" typed and the selection moved to the second match, Confirm has
\* returned the label "aa"
C29_Witness ==
    /\ status = "Confirmed"
    /\ filter = <<"a">>
    /\ selection = Some(1)
    /\ result = Some(<<"a", "a">>)
    /\ frame[1].highlighted = result

(***************************************************************************)
(* Properties of the display                                               *)
(***************************************************************************)
\* the frame on the screen lists the matches of the current filter
DisplayCurrent ==
    /\ frame # None
    /\ frame[1].list = [i \in 1..Len(Matches(filter)) |-> Items[Matches(filter)[i]]]

\* C30: when main_loop waits for an event with a frame on the screen that
\* does not list the matches of the filter (the tick after the last edit
\* did not finish the rescoring), the display catches up with the filter
\* without any further input event.
C30_DisplayCatchesUp ==
    (pk_pc = "read" /\ ~DisplayCurrent) ~> (DisplayCurrent \/ event # None)
====
